---- MODULE Spec2Model ----
(***************************************************************************)
(* Ghost RAG backend: the vector store adapter (vector_store.py), the      *)
(* LLM search route (routes.py, llm_service.py, reranker_service.py) and   *)
(* the ReAct agent loop (agent_service.py, agent_tools.py).                *)
(*                                                                         *)
(* Eight specifications share the module:                                   *)
(*   Spec          one run of run_agent, advanced by its consumer          *)
(*   SpecTwo       two runs of run_agent on one event loop                 *)
(*   SpecIndex     add_page / delete / search on the collection            *)
(*   SpecPages     add_page / delete / get_all on the collection           *)
(*   SpecOpen      _get_collection across restarts of the process          *)
(*   SpecLlmSearch the /llm-search route                                   *)
(*   SpecHeuristics rerank_by_heuristics on candidates of every text shape  *)
(*   SpecSplit     split_text, one window of the text at a time            *)
(***************************************************************************)
EXTENDS Integers, Sequences, FiniteSets, TLC

VARIABLES
    index,      \* the ChromaDB collection: a set of records, unique by id
    op,         \* SpecIndex / SpecLlmSearch: the operation that ran last
    arg,        \* its arguments
    fetched,    \* search: the raw rows col.query returned
    ret,        \* its return value
    written,    \* history: the add_page request that returned just before
                \* this search, if one did
    latest,     \* history: per url, the last add_page or delete on it,
                \* when no call on the collection failed in it
    config,     \* llm_service._config
    pc,         \* run_agent: where the generator is suspended
    step,       \* run_agent: the loop variable (0-based)
    messages,   \* run_agent: the conversation
    restore_actions,  \* run_agent: the accepted batch_restore results
    events,     \* the events the consumer has received, in order
    tool_calls, \* run_agent: the tool calls of the current reply
    tc,         \* run_agent: position of the current tool call (1-based)
    tool_args,  \* run_agent: the parsed arguments of the current tool call
    tool_result,\* run_agent: the result of the current tool call
    reply,      \* the outcome of the last LLM call
    exc,        \* the exception that ended the run, if one did
    llm_calls,  \* number of calls of _call_llm
    requested,  \* number of tool calls the replies requested
    dispatched, \* number of calls of dispatch_tool
    consumer,   \* whether the run's consumer still reads its events
    running,    \* the query whose run the variables above are the locals of
    parked      \* the locals of the other query's run, suspended meanwhile

storeVars == <<index, op, arg, fetched, ret, written, latest>>
agentRunVars == <<pc, step, messages, restore_actions, events, tool_calls,
                  tc, tool_args, tool_result, reply, exc, llm_calls, requested,
                  dispatched, consumer, running, parked>>
readerVars == <<consumer, running, parked>>
agentVars == <<config, agentRunVars>>
vars == <<storeVars, agentVars>>

(***************************************************************************)
(* Bounds of the model.                                                    *)
(***************************************************************************)
MaxChunks == 3      \* chunks per indexed page
MaxTopK == 2        \* top_k of a search request
DocChars == 400     \* characters of a stored chunk text
MaxFreeCalls == 2   \* tool calls of a run drawn from the whole set CallShapes
MaxLines == 10      \* non-empty lines of a candidate's text

Urls == {"a", "b"}
Titles == {"t1", "t2"}
Vectors == {0, 1}               \* unit vectors, as multiples of 30 degrees

\* Sequences over S of length lo..hi.
SeqsOf(S, lo, hi) == UNION {[1..n -> S] : n \in lo..hi}

\* The chunk vectors of the pages that are indexed: 1..MaxChunks chunks, the
\* chunks after the first one all on the same topic.
PageVectors ==
    {s \in SeqsOf(Vectors, 1, MaxChunks) : \A i \in 2..Len(s) : s[i] = 1}

Range(s) == {s[i] : i \in DOMAIN s}

\* Dicts are records: k in d, and d.get(k, default).
Has(d, k) == k \in DOMAIN d
Get(d, k, default) == IF Has(d, k) THEN d[k] ELSE default

(***************************************************************************)
(* Cosine distance of two unit vectors, in units of 1e-5.                  *)
(***************************************************************************)
Cos5(steps) ==
    CASE steps = 0 -> 100000
      [] steps = 1 -> 86603
      [] steps = 2 -> 50000
      [] steps = 3 -> 0
      [] steps = 4 -> -50000
      [] OTHER -> -86603

Abs(x) == IF x < 0 THEN -x ELSE x

Distance(v, w) == 100000 - Cos5(Abs(v - w))

\* round(1 - dist, 4), in units of 1e-4 (round half to even).
Round4(sim5) ==
    LET q == sim5 \div 10
        r == sim5 % 10
    IN IF r > 5 \/ (r = 5 /\ q % 2 = 1) THEN q + 1 ELSE q

\* Mutant of ScoreOfDistance: the distance is taken for the similarity.
ScoreIsDistance(dist) == Round4(dist)

ScoreOfDistance(dist) == Round4(100000 - dist)

(***************************************************************************)
(* Identity of pages and chunks.                                           *)
(***************************************************************************)
_url_to_id(url) == <<"sha256", url>>

_chunk_id(url_hash, chunk_index) == <<url_hash, "_chunk_", chunk_index>>

\* Storage order of the collection's rows (the order col.get returns them):
\* by page, a record of the legacy shape before the chunks written later.
UrlRank(url) == IF url = "a" THEN 0 ELSE IF url = "b" THEN 1 ELSE 2

RowRank(r) ==
    UrlRank(r.meta.url) * 100
        + (IF Has(r.meta, "chunk_index") THEN r.meta.chunk_index + 1 ELSE 0)

RECURSIVE RowsInOrder(_)
RowsInOrder(S) ==
    IF S = {} THEN <<>>
    ELSE LET first == CHOOSE r \in S : \A o \in S : RowRank(r) <= RowRank(o)
         IN <<first>> \o RowsInOrder(S \ {first})

Reverse(s) == [i \in 1..Len(s) |-> s[Len(s) + 1 - i]]

(***************************************************************************)
(* The collection's primitives.                                            *)
(***************************************************************************)
ColCount(col) == Cardinality(col)

\* col.get(where={"url_hash": h}): a record without the field does not match.
ColGetWhere(col, h) == {r \in col : Get(r.meta, "url_hash", <<>>) = h}

\* col.get(ids=[id])
ColGetIds(col, id) == {r \in col : r.id = id}

\* col.delete(ids=...)
ColDelete(col, ids) == {r \in col : r.id \notin ids}

\* col.upsert(...): rows with a known id are replaced.
ColUpsert(col, rows) ==
    {r \in col : r.id \notin {n.id : n \in rows}} \cup rows

\* col.query(query_embeddings=[q], n_results=n): the n nearest rows, nearest
\* first; rows at equal distance come in storage order or in its reverse.
RECURSIVE NearestFirst(_, _, _)
NearestFirst(rows, q, n) ==
    IF n = 0 \/ rows = <<>> THEN <<>>
    ELSE LET best == CHOOSE i \in 1..Len(rows) :
                        /\ \A j \in 1..Len(rows) :
                              Distance(q, rows[i].vec) <= Distance(q, rows[j].vec)
                        /\ \A j \in 1..(i - 1) :
                              Distance(q, rows[j].vec) > Distance(q, rows[i].vec)
             rest == [k \in 1..(Len(rows) - 1) |->
                        IF k < best THEN rows[k] ELSE rows[k + 1]]
         IN <<[meta |-> rows[best].meta,
               distance |-> Distance(q, rows[best].vec),
               document |-> rows[best].doc]>> \o NearestFirst(rest, q, n - 1)

TieOrders == {"storage", "reverse"}

ColQuery(col, q, n, tie) ==
    NearestFirst(IF tie = "storage" THEN RowsInOrder(col)
                 ELSE Reverse(RowsInOrder(col)), q, n)

Min(a, b) == IF a < b THEN a ELSE b

(***************************************************************************)
(* vector_store.search                                                     *)
(***************************************************************************)
\* One pass of the de-duplication loop: seen is the insertion-ordered
\* dict seen_urls, as a sequence of items with distinct urls.
SeenPos(seen, url) ==
    IF \E i \in 1..Len(seen) : seen[i].url = url
    THEN CHOOSE i \in 1..Len(seen) : seen[i].url = url
    ELSE 0

SearchItem(row, include_text) ==
    LET base == [url |-> row.meta.url,
                 title |-> row.meta.title,
                 tab_id |-> row.meta.tab_id,
                 favicon |-> row.meta.favicon,
                 score |-> ScoreOfDistance(row.distance)]
    IN IF include_text
       THEN [url |-> base.url, title |-> base.title, tab_id |-> base.tab_id,
             favicon |-> base.favicon, score |-> base.score,
             text |-> row.document]
       ELSE base

\* Mutant of KeepsRow: every row of a url replaces the one kept before it.
KeepsRowAlways(seen, row) == TRUE

KeepsRow(seen, row) ==
    LET p == SeenPos(seen, row.meta.url)
    IN p = 0 \/ ScoreOfDistance(row.distance) > seen[p].score

RECURSIVE DedupeByUrl(_, _, _)
DedupeByUrl(rows, seen, include_text) ==
    IF rows = <<>> THEN seen
    ELSE LET row == Head(rows)
             p == SeenPos(seen, row.meta.url)
             item == SearchItem(row, include_text)
             next == IF ~KeepsRow(seen, row) THEN seen
                     ELSE IF p = 0 THEN Append(seen, item)
                     ELSE [seen EXCEPT ![p] = item]
         IN DedupeByUrl(Tail(rows), next, include_text)

\* sorted(items, key=score, reverse=True): stable, descending.
RECURSIVE InsertByScore(_, _)
InsertByScore(sorted, item) ==
    IF sorted = <<>> THEN <<item>>
    ELSE IF Head(sorted).score >= item.score
         THEN <<Head(sorted)>> \o InsertByScore(Tail(sorted), item)
         ELSE <<item>> \o sorted

RECURSIVE SortByScoreDesc(_)
SortByScoreDesc(items) ==
    IF items = <<>> THEN <<>>
    ELSE InsertByScore(SortByScoreDesc(SubSeq(items, 1, Len(items) - 1)),
                       items[Len(items)])

Truncate(s, k) == SubSeq(s, 1, Min(k, Len(s)))

FetchK(col, top_k) == Min(top_k * 5, ColCount(col))

SearchRows(rows, top_k, include_text) ==
    Truncate(SortByScoreDesc(DedupeByUrl(rows, <<>>, include_text)), top_k)

search(col, q, top_k, include_text, tie) ==
    IF ColCount(col) = 0 THEN <<>>
    ELSE SearchRows(ColQuery(col, q, FetchK(col, top_k), tie), top_k, include_text)

(***************************************************************************)
(* vector_store.add_page / delete / get_all                                *)
(***************************************************************************)
\* What the collection does during add_page: "none", "where" (the call
\* col.get(where=...) raises) or "upsert" (col.upsert rejects the batch and
\* writes nothing).  During delete: "none", "where", "ids" (col.get(ids=...)
\* raises) or "remove" (col.delete raises and removes nothing).
AddPageFaults == {"none", "where", "upsert"}
DeleteFaults == {"none", "where", "ids", "remove"}

_delete_chunks_by_url_hash(col, url_hash, fault) ==
    IF fault = "where"
    THEN ColDelete(col, {r.id : r \in ColGetIds(col, url_hash)})
    ELSE ColDelete(col, {r.id : r \in ColGetWhere(col, url_hash)})

\* The text of a chunk, as far as the code looks at it: its non-empty lines
\* (length, and whether the line starts with a list marker) and the words
\* in it.  Page "a" is prose that names "q0"; the others are short lists.
PageText(url, part) ==
    IF url = "a"
    THEN [page |-> url, part |-> part, words |-> {"q0"},
          lines |-> <<[chars |-> DocChars, marker |-> FALSE]>>]
    ELSE [page |-> url, part |-> part, words |-> {},
          lines |-> <<[chars |-> 10, marker |-> TRUE],
                      [chars |-> 12, marker |-> TRUE],
                      [chars |-> 30, marker |-> FALSE]>>]

NewRows(url, title, tab_id, vecs) ==
    {[id |-> _chunk_id(_url_to_id(url), i - 1),
      vec |-> vecs[i],
      doc |-> PageText(url, i - 1),
      meta |-> [url |-> url, title |-> title, tab_id |-> tab_id,
                favicon |-> "", chunk_index |-> i - 1,
                total_chunks |-> Len(vecs), url_hash |-> _url_to_id(url)]]
        : i \in 1..Len(vecs)}

\* add_page returns its dict or raises; col is the collection it leaves.
add_page(col, url, title, tab_id, vecs, fault) ==
    LET purged == _delete_chunks_by_url_hash(col, _url_to_id(url), fault)
    IN IF fault = "upsert"
       THEN [col |-> purged, raised |-> TRUE, value |-> <<>>]
       ELSE [col |-> ColUpsert(purged, NewRows(url, title, tab_id, vecs)),
             raised |-> FALSE,
             value |-> [doc_id |-> _url_to_id(url), chunks |-> Len(vecs)]]

\* Mutant of DeletedAny: only the chunk records count.
DeletedAnyChunksOnly(chunks_removed, legacy_removed) == chunks_removed

\* deleted_any after the two try blocks.
DeletedAny(chunks_removed, legacy_removed) == chunks_removed \/ legacy_removed

delete(col, url, fault) ==
    LET url_hash == _url_to_id(url)
        existing == IF fault = "where" THEN {} ELSE ColGetWhere(col, url_hash)
        first == existing # {} /\ fault # "remove"
        col1 == IF first THEN ColDelete(col, {r.id : r \in existing}) ELSE col
        old_existing == IF fault = "ids" THEN {} ELSE ColGetIds(col1, url_hash)
        second == old_existing # {} /\ fault # "remove"
        col2 == IF second THEN ColDelete(col1, {r.id : r \in old_existing})
                ELSE col1
    IN [col |-> col2, raised |-> FALSE, deleted_any |-> DeletedAny(first, second)]

RECURSIVE FirstPerUrl(_, _)
FirstPerUrl(rows, seen) ==
    IF rows = <<>> THEN seen
    ELSE LET m == Head(rows).meta
         IN FirstPerUrl(Tail(rows),
               IF SeenPos(seen, m.url) # 0 THEN seen
               ELSE Append(seen, [url |-> m.url, title |-> m.title,
                                  tab_id |-> m.tab_id,
                                  favicon |-> Get(m, "favicon", ""),
                                  chunks |-> Get(m, "total_chunks", 1)]))

get_all(col) ==
    IF ColCount(col) = 0 THEN <<>> ELSE FirstPerUrl(RowsInOrder(col), <<>>)

(***************************************************************************)
(* vector_store._get_collection: the first access of a process checks the  *)
(* dimension of the persisted vectors.                                     *)
(***************************************************************************)
EXPECTED_DIM == 512

\* The configured dimension and that of an earlier embedding model.
Dims == {EXPECTED_DIM, 384}

\* What can fail during the first access: the client, or one call of the
\* dimension check, or get_or_create_collection.
OpenFaults ==
    {"none", "client", "count", "get", "delete_collection",
     "get_or_create_collection"}

\* Lines 115-129: the collection is deleted when it exists, count() > 0 and
\* the sampled embedding has another length than EXPECTED_DIM; an exception
\* of any of these calls is printed and the check is skipped.
DimensionCheck(store, fault) ==
    IF /\ store.exists
       /\ fault # "count" /\ store.rows # {}
       /\ fault # "get" /\ store.dim # EXPECTED_DIM
       /\ fault # "delete_collection"
    THEN [exists |-> FALSE, dim |-> EXPECTED_DIM, rows |-> {}]
    ELSE store

_get_collection(store, opened, fault) ==
    IF opened THEN [opened |-> TRUE, raised |-> FALSE, store |-> store]
    ELSE IF fault = "client"
    THEN [opened |-> FALSE, raised |-> TRUE, store |-> store]
    ELSE IF fault = "get_or_create_collection"
    THEN [opened |-> FALSE, raised |-> TRUE,
          store |-> DimensionCheck(store, fault)]
    ELSE [opened |-> TRUE, raised |-> FALSE,
          store |-> [DimensionCheck(store, fault) EXCEPT !.exists = TRUE]]

(***************************************************************************)
(* agent_tools.py: the four tools and their dispatcher.  A tool either     *)
(* returns a dict or raises; `fault` is what the collaborators do during   *)
(* the call: "none", "encode" (embedding_service.encode raises), "open"    *)
(* (_get_collection raises) or "read" (a call on the collection raises).   *)
(***************************************************************************)
READ_CAP == 5000
DEFAULT_TOP_K == 5

Raise(e) == [raised |-> TRUE, exc |-> e, value |-> <<>>]
Return(v) == [raised |-> FALSE, exc |-> "none", value |-> v]

\* embedding_service.encode
Encode(query) == IF query = "q0" THEN 0 ELSE 1

FormatResult(r) ==
    [title |-> r.title, url |-> r.url, score |-> r.score,
     text_preview |-> [head_of |-> r.text]]

execute_search_tabs(col, query, top_k, fault, tie) ==
    IF fault # "none" THEN Raise("CollaboratorError")
    ELSE LET results == search(col, Encode(query), top_k, TRUE, tie)
         IN IF results = <<>>
            THEN Return([found |-> 0, message |-> "no match", results |-> <<>>])
            ELSE Return([found |-> Len(results),
                         results |-> [i \in 1..Len(results) |->
                                         FormatResult(results[i])]])

RECURSIVE SumChars(_)
SumChars(lines) ==
    IF lines = <<>> THEN 0 ELSE Head(lines).chars + SumChars(Tail(lines))

\* len(text) of a text of these lines
TextChars(lines) ==
    IF lines = <<>> THEN 0 ELSE SumChars(lines) + (Len(lines) - 1)

RECURSIVE JoinLines(_)
JoinLines(docs) ==
    IF docs = <<>> THEN <<>> ELSE Head(docs).lines \o JoinLines(Tail(docs))

\* len("\n".join(texts))
JoinedChars(docs) == TextChars(JoinLines(docs))

execute_read_tab(col, url, fault) ==
    IF fault = "open" THEN Raise("CollaboratorError")
    ELSE IF fault = "read" THEN Return([error |-> "read failed"])
    ELSE LET rows == RowsInOrder(ColGetWhere(col, _url_to_id(url)))
             docs == [i \in 1..Len(rows) |-> rows[i].doc]
         IN IF rows = <<>> THEN Return([error |-> "not found"])
            ELSE Return([url |-> url,
                         title |-> rows[1].meta.title,
                         total_chunks |-> Len(rows),
                         content |-> [parts |-> docs,
                                      chars |-> Min(JoinedChars(docs), READ_CAP)],
                         truncated |-> JoinedChars(docs) > READ_CAP])

execute_list_tabs(col, fault) ==
    IF fault # "none" THEN Raise("CollaboratorError")
    ELSE LET pages == get_all(col)
         IN IF pages = <<>>
            THEN Return([count |-> 0, message |-> "no tabs", tabs |-> <<>>])
            ELSE Return([count |-> Len(pages),
                         tabs |-> [i \in 1..Len(pages) |->
                                     [title |-> pages[i].title,
                                      url |-> pages[i].url,
                                      chunks |-> pages[i].chunks]]])

execute_batch_restore(urls, reason) ==
    IF urls = <<>> THEN Return([error |-> "no urls"])
    ELSE Return([action |-> "batch_restore", urls |-> urls,
                 count |-> Len(urls), reason |-> reason])

\* Mutant of UnknownTool: an unknown name is an exception.
UnknownToolRaises(name) == Raise("ValueError")

UnknownTool(name) == Return([error |-> "unknown tool"])

dispatch_tool(name, arguments, col, fault, tie) ==
    CASE name = "search_tabs" ->
            IF ~Has(arguments, "query") THEN Raise("KeyError")
            ELSE execute_search_tabs(col, arguments.query,
                                     Get(arguments, "top_k", DEFAULT_TOP_K),
                                     fault, tie)
      [] name = "read_tab" ->
            IF ~Has(arguments, "url") THEN Raise("KeyError")
            ELSE execute_read_tab(col, arguments.url, fault)
      [] name = "list_tabs" -> execute_list_tabs(col, fault)
      [] name = "batch_restore" ->
            IF ~Has(arguments, "urls") THEN Raise("KeyError")
            ELSE execute_batch_restore(arguments.urls,
                                       Get(arguments, "reason", ""))
      [] OTHER -> UnknownTool(name)

\* Mutant of CollectionOpened: the tool's access is the process's first.
CollectionUnopened == FALSE

\* main.py:17-28: lifespan calls vector_store.init() before a request is
\* served, and the process does not start when it raises; nothing resets
\* _collection afterwards.
CollectionOpened == TRUE

\* The records of the collection after the tool ran.  search (line 250 of
\* vector_store.py), get_all (327) and execute_read_tab (agent_tools.py:144)
\* fetch the collection with _get_collection() and then call only count,
\* query and get on it; batch_restore and an unknown name touch nothing.
\* `dim` is the dimension of the persisted vectors.
IndexAfterTool(name, arguments, col, dim, fault) ==
    IF \/ name = "search_tabs" /\ Has(arguments, "query") /\ fault # "encode"
       \/ name = "read_tab" /\ Has(arguments, "url")
       \/ name = "list_tabs"
    THEN _get_collection([exists |-> TRUE, dim |-> dim, rows |-> col],
                         CollectionOpened,
                         IF fault = "open" THEN "client" ELSE "none").store.rows
    ELSE col

\* What the collaborators can do during a call of the tool.
FaultsOf(name) ==
    CASE name = "search_tabs" -> {"none", "encode", "open", "read"}
      [] name = "read_tab" -> {"none", "open", "read"}
      [] name = "list_tabs" -> {"none", "open", "read"}
      [] OTHER -> {"none"}

TiesOf(name) == IF name = "search_tabs" THEN TieOrders ELSE {"storage"}

(***************************************************************************)
(* agent_service.py: JSON texts, events and the summary of a tool result.  *)
(***************************************************************************)
MAX_STEPS == 15

\* A JSON text is the document it encodes; other texts encode nothing.
JsonText(d) == [text |-> "json", of |-> d]
Malformed == [text |-> "malformed"]

\* json.loads inside try/except JSONDecodeError: {} on failure.
ParseArguments(s) == IF s.text = "json" THEN s.of ELSE <<>>

json_dumps(d) == JsonText(d)

\* Mutant of Configured: the api key is not looked at.
ConfiguredIfPresent(c) == c.present

Configured(c) == c.present /\ c.api_key # ""

_summarize_result(result) ==
    CASE Has(result, "error") ->
            [status |-> "error", message |-> result.error]
      [] Has(result, "found") ->
            IF result.results # <<>>
            THEN [status |-> "success", found |-> result.found,
                  titles |-> [i \in 1..Min(5, Len(result.results)) |->
                                 result.results[i].title]]
            ELSE [status |-> "success", found |-> result.found]
      [] Has(result, "count") /\ Has(result, "tabs") ->
            [status |-> "success", count |-> result.count]
      [] Has(result, "content") ->
            [status |-> "success", title |-> Get(result, "title", ""),
             length |-> result.content.chars]
      [] Has(result, "action") ->
            [status |-> "action", action |-> result.action,
             count |-> Get(result, "count", 0)]
      [] OTHER -> [status |-> "success"]

ThinkingEvent(s) ==
    [type |-> "thinking", step |-> s + 1, message |-> "thinking"]

ErrorEvent(msg) == [type |-> "error", message |-> msg]

ToolCallEvent(s, name, args) ==
    [type |-> "tool_call", step |-> s + 1, tool |-> name, arguments |-> args]

ToolResultEvent(s, name, result) ==
    [type |-> "tool_result", step |-> s + 1, tool |-> name,
     result |-> _summarize_result(result)]

\* Mutant of DictFromKeys: nothing is removed.
DictFromKeysKeepsAll(urls) == urls

RECURSIVE DictFromKeys(_)
\* list(dict.fromkeys(urls)): the first occurrence of every element.
DictFromKeys(urls) ==
    IF urls = <<>> THEN <<>>
    ELSE LET front == DictFromKeys(SubSeq(urls, 1, Len(urls) - 1))
             last == urls[Len(urls)]
         IN IF last \in Range(front) THEN front ELSE Append(front, last)

RECURSIVE ExtendAll(_)
ExtendAll(actions) ==
    IF actions = <<>> THEN <<>>
    ELSE Get(Head(actions), "urls", <<>>) \o ExtendAll(Tail(actions))

ActionEvent(actions) ==
    LET all_urls == DictFromKeys(ExtendAll(actions))
    IN [type |-> "action", action |-> "batch_restore",
        urls |-> all_urls, count |-> Len(all_urls)]

\* Mutant of AnswerEvent: the 0-based loop variable is reported.
AnswerEventZeroBased(content, s) ==
    [type |-> "answer", content |-> content, steps_used |-> s]

AnswerEvent(content, s) ==
    [type |-> "answer", content |-> content, steps_used |-> s + 1]

TruncatedEvent ==
    [type |-> "answer", content |-> "no conclusion",
     steps_used |-> MAX_STEPS, truncated |-> TRUE]

SystemMessage == [role |-> "system", content |-> "AGENT_SYSTEM_PROMPT"]
UserMessage(q) == [role |-> "user", content |-> q]

\* Mutant of ToolMessage: every result carries the id of the first call of
\* its step.
ToolMessageOfFirstCall(id, result) ==
    [role |-> "tool", tool_call_id |-> <<id[1], id[2], id[3], 1>>,
     content |-> json_dumps(result)]

ToolMessage(id, result) ==
    [role |-> "tool", tool_call_id |-> id, content |-> json_dumps(result)]

(***************************************************************************)
(* llm_service.generate_keywords                                           *)
(***************************************************************************)
\* The content of a choice message: a text, possibly inside a ``` fence.
\* Lines 130-134 (and reranker_service 96-100) take the text out of it.
StripFence(content) == content.body

\* llm is what the completion provider does: "transport" (the request
\* fails or times out), "http_status", "not_json" (the body of the reply is
\* no JSON) or a decoded body.
generate_keywords(cfg, llm) ==
    IF ~Configured(cfg)
    THEN Return([error |-> "LLM not configured", keywords |-> <<>>])
    ELSE CASE llm.kind = "transport" ->
                Return([error |-> "LLM call failed", keywords |-> <<>>])
           [] llm.kind = "http_status" ->
                Return([error |-> "LLM API error", keywords |-> <<>>])
           [] llm.kind = "not_json" ->
                \* resp.json() raises JSONDecodeError before `content` is
                \* bound; the handler of line 142 reads it.
                Raise("UnboundLocalError")
           [] OTHER ->
                IF ~Has(llm.body, "choices") \/ llm.body.choices = <<>>
                THEN Return([error |-> "LLM call failed", keywords |-> <<>>])
                ELSE LET text == StripFence(llm.body.choices[1].message.content)
                     IN IF text.text # "json"
                        THEN Return([error |-> "LLM reply format",
                                     keywords |-> <<>>, raw_response |-> text])
                        ELSE Return([keywords |-> Get(text.of, "keywords", <<>>),
                                     raw_response |-> text])

(***************************************************************************)
(* reranker_service                                                        *)
(***************************************************************************)
\* A score of a result: v * 10^-e.
Score(v, e) == [v |-> v, e |-> e]

IsNumber(x) == Has(x, "num")

\* sorted(documents, key=final_score, reverse=True): stable, descending.
RECURSIVE InsertByFinal(_, _)
InsertByFinal(sorted, doc) ==
    IF sorted = <<>> THEN <<doc>>
    ELSE IF Head(sorted).final_score.v >= doc.final_score.v
         THEN <<Head(sorted)>> \o InsertByFinal(Tail(sorted), doc)
         ELSE <<doc>> \o sorted

\* Mutant of SortByFinalDesc: the documents stay in their input order.
KeepInputOrder(docs) == docs

RECURSIVE SortByFinalDesc(_)
SortByFinalDesc(docs) ==
    IF docs = <<>> THEN <<>>
    ELSE InsertByFinal(SortByFinalDesc(SubSeq(docs, 1, Len(docs) - 1)),
                       docs[Len(docs)])

WithField(doc, k, x) ==
    [f \in DOMAIN doc \cup {k} |-> IF f = k THEN x ELSE doc[f]]

\* score_map.get(i, 50): the last entry for index i, 50 without one.
ScoreFor(scores, i) ==
    LET at == {j \in 1..Len(scores) : scores[j].index = i}
    IN IF at = {} THEN [num |-> 50]
       ELSE scores[CHOOSE j \in at : \A k \in at : k <= j].score

\* final_score = 0.3 * (score * 100) + 0.7 * llm_score, in units of 1e-3.
LlmFinalScore(score4, llm_score) == Score(3 * score4 + 700 * llm_score, 3)

RECURSIVE ApplyScores(_, _, _)
\* Lines 109-115: the documents are updated in place, in order, until a
\* score that is no number raises TypeError.
ApplyScores(docs, scores, i) ==
    IF i > Len(docs) THEN [docs |-> docs, failed |-> FALSE]
    ELSE LET llm_score == ScoreFor(scores, i - 1)
             marked == WithField(docs[i], "rerank_score", llm_score)
         IN IF ~IsNumber(llm_score)
            THEN [docs |-> [docs EXCEPT ![i] = marked], failed |-> TRUE]
            ELSE ApplyScores(
                    [docs EXCEPT ![i] =
                        WithField(marked, "final_score",
                                  LlmFinalScore(docs[i].score, llm_score.num))],
                    scores, i + 1)

rerank_with_llm(cfg, documents, top_k, llm) ==
    IF ~Configured(cfg) THEN [docs |-> Truncate(documents, top_k), mode |-> "skipped"]
    ELSE IF documents = <<>> THEN [docs |-> <<>>, mode |-> "none"]
    ELSE IF llm.kind # "body"
            \/ ~Has(llm.body, "choices") \/ llm.body.choices = <<>>
    THEN [docs |-> Truncate(documents, top_k), mode |-> "fallback"]
    ELSE LET text == StripFence(llm.body.choices[1].message.content)
             scores == Get(text.of, "scores", <<>>)
         IN IF text.text # "json"
            THEN [docs |-> Truncate(documents, top_k), mode |-> "fallback"]
            ELSE IF \E j \in 1..Len(scores) :
                      ~Has(scores[j], "index") \/ ~Has(scores[j], "score")
            THEN [docs |-> Truncate(documents, top_k), mode |-> "fallback"]
            ELSE LET applied == ApplyScores(documents, scores, 1)
                 IN IF applied.failed
                    THEN [docs |-> Truncate(applied.docs, top_k),
                          mode |-> "fallback"]
                    ELSE [docs |-> Truncate(SortByFinalDesc(applied.docs), top_k),
                          mode |-> "llm"]

\* query_terms = set(re.findall(r"\w+", query.lower()))
QueryTerms(query) == {query}

RECURSIVE CountMarkers(_)
CountMarkers(lines) ==
    IF lines = <<>> THEN 0
    ELSE (IF Head(lines).marker THEN 1 ELSE 0) + CountMarkers(Tail(lines))

\* Mutant of Penalty: a text that is a list by half is penalised too.
PenaltyFromHalf(lines) ==
    IF lines = <<>> THEN 100
    ELSE ((IF SumChars(lines) < 20 * Len(lines) THEN 7 ELSE 10)
          * (IF 2 * CountMarkers(lines) >= Len(lines) THEN 6 ELSE 10))

\* The penalty, in hundredths: 0.7 for short lines, 0.6 for a list.
Penalty(lines) ==
    IF lines = <<>> THEN 100
    ELSE ((IF SumChars(lines) < 20 * Len(lines) THEN 7 ELSE 10)
          * (IF 2 * CountMarkers(lines) > Len(lines) THEN 6 ELSE 10))

\* The bonus, in hundredths: 1 + 0.05 per query term found in the text.
Bonus(query, text) ==
    100 + 5 * Cardinality({t \in QueryTerms(query) : t \in text.words})

\* final_score = score * penalty * bonus, in units of 1e-8.
HeuristicFinalScore(query, doc) ==
    Score(doc.score * Penalty(doc.text.lines) * Bonus(query, doc.text), 8)

rerank_by_heuristics(query, documents, top_k) ==
    Truncate(SortByFinalDesc(
        [i \in 1..Len(documents) |->
            WithField(documents[i], "final_score",
                      HeuristicFinalScore(query, documents[i]))]), top_k)

rerank(cfg, query, documents, top_k, use_llm, llm) ==
    IF documents = <<>> THEN [docs |-> <<>>, mode |-> "none"]
    ELSE IF use_llm /\ Configured(cfg)
    THEN rerank_with_llm(cfg, documents, top_k, llm)
    ELSE [docs |-> rerank_by_heuristics(query, documents, top_k),
          mode |-> "heuristics"]

(***************************************************************************)
(* routes.llm_search                                                       *)
(***************************************************************************)
\* Mutant of KeywordsOrQuery: no fallback to the raw query.
KeywordsAsGenerated(keywords, query) == keywords

\* Lines 94-95.
KeywordsOrQuery(keywords, query) ==
    IF keywords = <<>> THEN <<query>> ELSE keywords

RecallTopK(top_k) == Min(top_k * 3, 20)

\* Mutant of ReplacesSeen: the later result always replaces the one kept.
ReplacesSeenAlways(r, kept) == TRUE

\* Line 107: r["score"] > seen_urls[url]["score"]
ReplacesSeen(r, kept) == r.score > kept.score

RECURSIVE MergeByUrl(_, _)
\* Lines 105-108: per url the result with the highest score is kept.
MergeByUrl(results, seen) ==
    IF results = <<>> THEN seen
    ELSE LET r == Head(results)
             p == SeenPos(seen, r.url)
         IN MergeByUrl(Tail(results),
               IF p = 0 THEN Append(seen, r)
               ELSE IF ReplacesSeen(r, seen[p]) THEN [seen EXCEPT ![p] = r]
               ELSE seen)

RECURSIVE Recall(_, _, _, _, _)
\* Lines 100-108: one search per keyword.
Recall(col, keywords, top_k, tie, seen) ==
    IF keywords = <<>> THEN seen
    ELSE Recall(col, Tail(keywords), top_k, tie,
                MergeByUrl(search(col, Encode(Head(keywords)),
                                  RecallTopK(top_k), TRUE, tie), seen))

\* Lines 122-127 and SearchResult(**r): the score is final_score / 100
\* where there is one.
Reported(r) ==
    [url |-> r.url, title |-> r.title, tab_id |-> r.tab_id,
     favicon |-> r.favicon,
     score |-> IF Has(r, "final_score")
               THEN Score(r.final_score.v, r.final_score.e + 2)
               ELSE Score(r.score, 4)]

\* The route: kw and rr are what the provider does on the two LLM calls.
\* Besides the response, the calls made and the candidates handed to the
\* reranker are returned.
llm_search(cfg, col, query, top_k, kw, rr, tie) ==
    LET llm_result == generate_keywords(cfg, kw)
    IN IF llm_result.raised
       THEN [raised |-> TRUE, exc |-> llm_result.exc, searches |-> 0,
             candidates |-> <<>>, rerank_mode |-> "none"]
       ELSE LET keywords == KeywordsOrQuery(
                                Get(llm_result.value, "keywords", <<>>), query)
                merged == SortByScoreDesc(Recall(col, keywords, top_k, tie, <<>>))
                reranked == rerank(cfg, query, merged, top_k, TRUE, rr)
            IN [raised |-> FALSE, exc |-> "none",
                searches |-> Len(keywords),
                candidates |-> merged,
                rerank_mode |-> reranked.mode,
                response |->
                    [keywords |-> keywords,
                     results |-> [i \in 1..Len(reranked.docs) |->
                                     Reported(reranked.docs[i])],
                     llm_error |-> Get(llm_result.value, "error", "null")]]

(***************************************************************************)
(* SpecIndex: the index operations, one request at a time.                 *)
(***************************************************************************)
TabIdOf(url) == UrlRank(url) + 1

NoArg == [none |-> TRUE]

NoConfig == [present |-> FALSE, api_key |-> ""]

\* No second query is being served.
NoRun == [pc |-> "absent"]

\* The first query's run has not started.
FirstRunIdle ==
    /\ pc = "idle"
    /\ step = 0
    /\ messages = <<>>
    /\ restore_actions = <<>>
    /\ events = <<>>
    /\ tool_calls = <<>>
    /\ tc = 0
    /\ tool_args = <<>>
    /\ tool_result = <<>>
    /\ reply = [kind |-> "none"]
    /\ exc = "none"
    /\ llm_calls = 0
    /\ requested = 0
    /\ dispatched = 0
    /\ consumer = "reading"
    /\ running = 1

AgentIdle == FirstRunIdle /\ parked = NoRun

\* A record an earlier version of the program stored: one per page, its id
\* the page id, its metadata without url_hash, chunk_index and total_chunks.
LegacyRow(url) ==
    [id |-> _url_to_id(url), vec |-> 0, doc |-> PageText(url, 0),
     meta |-> [url |-> url, title |-> "t0", tab_id |-> TabIdOf(url),
               favicon |-> ""]]

NoHistory ==
    /\ written = NoArg
    /\ latest = [u \in Urls |-> [op |-> "none"]]

\* The collection at startup: new, or kept from the earlier version.
InitIndex ==
    /\ index \in {{}, {LegacyRow("a")}}
    /\ op = "init"
    /\ arg = NoArg
    /\ fetched = <<>>
    /\ ret = <<>>
    /\ NoHistory
    /\ config = NoConfig
    /\ AgentIdle

\* POST /api/index, for pages with these titles and chunk vectors.  A
\* failing col.get is drawn for requests of MaxChunks chunks.
IndexPageOf(titles, pages) ==
    \E url \in Urls, title \in titles, vecs \in pages,
       fault \in AddPageFaults :
        LET result == add_page(index, url, title, TabIdOf(url), vecs, fault)
        IN /\ fault = "where" => Len(vecs) = MaxChunks
           /\ index' = result.col
           /\ op' = "add_page"
           /\ arg' = [url |-> url, title |-> title, vecs |-> vecs]
           /\ fetched' = <<>>
           /\ ret' = [raised |-> result.raised, value |-> result.value]
           /\ written' = NoArg
           /\ latest' = [latest EXCEPT ![url] =
                            IF result.raised THEN [op |-> "none"]
                            ELSE [op |-> "add_page", title |-> title,
                                  chunks |-> Len(vecs)]]
           /\ UNCHANGED agentVars

\* POST /api/delete
DeletePage ==
    \E url \in Urls, fault \in DeleteFaults :
        LET result == delete(index, url, fault)
        IN /\ index' = result.col
           /\ op' = "delete"
           /\ arg' = [url |-> url, faulty |-> (fault # "none")]
           /\ fetched' = <<>>
           /\ ret' = [raised |-> result.raised, value |-> result.deleted_any]
           /\ written' = NoArg
           /\ latest' = [latest EXCEPT ![url] =
                            IF fault = "none" THEN [op |-> "delete"]
                            ELSE [op |-> "none"]]
           /\ UNCHANGED agentVars

\* POST /api/search
SearchPages ==
    \E q \in Vectors, top_k \in 1..MaxTopK, tie \in TieOrders :
        /\ op' = "search"
        /\ arg' = [query_embedding |-> q, top_k |-> top_k]
        /\ fetched' = IF ColCount(index) = 0 THEN <<>>
                      ELSE ColQuery(index, q, FetchK(index, top_k), tie)
        /\ ret' = search(index, q, top_k, FALSE, tie)
        /\ written' = IF op = "add_page" /\ ~ret.raised THEN arg ELSE NoArg
        /\ UNCHANGED <<index, latest, agentVars>>

\* GET /api/pages
ListPages ==
    /\ op' = "get_all"
    /\ arg' = NoArg
    /\ fetched' = <<>>
    /\ ret' = get_all(index)
    /\ written' = NoArg
    /\ UNCHANGED <<index, latest, agentVars>>

\* SpecIndex: pages of one title and of every content.
IndexPage == IndexPageOf({"t1"}, PageVectors)

NextIndex == IndexPage \/ DeletePage \/ SearchPages

SpecIndex == InitIndex /\ [][NextIndex]_vars

\* SpecPages: pages of every title, one content for each number of chunks.
PlainPages == {s \in PageVectors : s[1] = 0}

ReindexPage == IndexPageOf(Titles, PlainPages)

NextPages == ReindexPage \/ DeletePage \/ ListPages

SpecPages == InitIndex /\ [][NextPages]_vars

(***************************************************************************)
(* Spec: one run of run_agent.  The generator runs only when its consumer  *)
(* asks for the next event, from one yield to the next; every action below *)
(* is one such stretch of the code.                                        *)
(*   pc = "idle"        not started                                        *)
(*        "thinking"    suspended at the yield of a thinking event         *)
(*        "tool_call"   suspended at the yield of a tool_call event        *)
(*        "tool_result" suspended at the yield of a tool_result event      *)
(*        "action"      suspended at the yield of the action event         *)
(*        "terminal"    suspended at the yield of an answer or error event *)
(*        "done"        returned                                           *)
(*        "raised"      ended by an exception that nothing caught          *)
(*        "cancelled"   ended by the cancellation of its consumer          *)
(***************************************************************************)
Configs == {NoConfig,
            [present |-> TRUE, api_key |-> ""],
            [present |-> TRUE, api_key |-> "sk-1"]}

UserQuery == "find my tabs"

OtherQuery == "restore my tabs"

QueryOf(run) == IF run = 1 THEN UserQuery ELSE OtherQuery

\* The generator runs only inside a call of __anext__ by its consumer.
AskedOrNot(reader) == TRUE

Asked(reader) == reader = "reading"

\* The index the run's tools read: empty, or two pages of two and one chunk.
AgentIndex ==
    add_page(add_page({}, "a", "t1", 1, <<0, 1>>, "none").col,
             "b", "t2", 2, <<1>>, "none").col

\* What the model may ask for: a tool name and an arguments text.
CallShapes ==
    {[name |-> "search_tabs", arguments |-> a] :
        a \in {Malformed, JsonText(<<>>), JsonText([query |-> "q0"]),
               JsonText([query |-> "q1", top_k |-> 1])}}
    \cup {[name |-> "read_tab", arguments |-> a] :
        a \in {Malformed, JsonText([url |-> "a"]), JsonText([url |-> "zz"])}}
    \cup {[name |-> "list_tabs", arguments |-> a] :
        a \in {Malformed, JsonText(<<>>)}}
    \cup {[name |-> "batch_restore", arguments |-> a] :
        a \in {Malformed, JsonText(<<>>),
               JsonText([urls |-> <<>>, reason |-> "r"]),
               JsonText([urls |-> <<"a", "b">>, reason |-> "r"]),
               JsonText([urls |-> <<"b", "c">>])}}
    \cup {[name |-> "open_tab", arguments |-> a] :
        a \in {Malformed, JsonText(<<>>)}}

\* Runs longer than MaxFreeCalls calls are explored with list_tabs as the
\* only further request, and only while the run asked for nothing but
\* list_tabs and batch_restore.
FillerShape == [name |-> "list_tabs", arguments |-> JsonText(<<>>)]

LongShapes == {c \in CallShapes : c.name \in {"list_tabs", "batch_restore"}}

LongRun(msgs) ==
    \A i \in 1..Len(msgs) :
        Has(msgs[i], "tool_calls") =>
            \A j \in 1..Len(msgs[i].tool_calls) :
                msgs[i].tool_calls[j].function \in LongShapes

MakeCalls(shapes, s) ==
    [i \in 1..Len(shapes) |->
        [id |-> <<"call", running, s + 1, i>>, type |-> "function",
         function |-> shapes[i]]]

ToolCallReplies(s, asked, msgs) ==
    {MakeCalls(shapes, s) :
        shapes \in SeqsOf(CallShapes, 1, MaxFreeCalls - asked)
                   \cup (IF LongRun(msgs) THEN {<<FillerShape>>} ELSE {})}

AssistantMessages(s, asked, msgs) ==
    {[role |-> "assistant", content |-> "final answer"],
     [role |-> "assistant", content |-> "final answer", tool_calls |-> <<>>]}
    \cup {[role |-> "assistant", content |-> "", tool_calls |-> calls] :
            calls \in ToolCallReplies(s, asked, msgs)}

\* The outcomes of _call_llm: it raises (transport error, timeout, HTTP error
\* status, a body that is not JSON) or returns the decoded body.
LlmOutcomes(s, asked, msgs) ==
    {[kind |-> "raise"],
     [kind |-> "body", body |-> [error |-> "overloaded"]],
     [kind |-> "body", body |-> [choices |-> <<>>]]}
    \cup {[kind |-> "body", body |-> [choices |-> <<[message |-> m]>>]] :
            m \in AssistantMessages(s, asked, msgs)}

\* With two queries in progress the replies explored are an error, the
\* final answer, and single tool calls while fewer than MaxFreeCalls were
\* requested.
ConcurrentShapes ==
    {[name |-> "list_tabs", arguments |-> JsonText(<<>>)],
     [name |-> "batch_restore",
      arguments |-> JsonText([urls |-> <<"a", "b">>, reason |-> "r"])],
     [name |-> "batch_restore", arguments |-> JsonText([urls |-> <<"b", "c">>])]}

ConcurrentOutcomes(s, asked) ==
    {[kind |-> "raise"],
     [kind |-> "body",
      body |-> [choices |-> <<[message |-> [role |-> "assistant",
                                            content |-> "final answer"]]>>]]}
    \cup {[kind |-> "body",
           body |-> [choices |-> <<[message |->
                        [role |-> "assistant", content |-> "",
                         tool_calls |-> MakeCalls(<<shape>>, s)]]>>]] :
            shape \in IF asked < MaxFreeCalls THEN ConcurrentShapes ELSE {}}

InitAgent ==
    /\ index \in {{}, AgentIndex}
    /\ op = "init"
    /\ arg = NoArg
    /\ fetched = <<>>
    /\ ret = <<>>
    /\ NoHistory
    /\ config \in Configs
    /\ AgentIdle

\* Lines 81-102: up to the first yield.
Start ==
    /\ pc = "idle"
    /\ Asked(consumer)
    /\ IF ~Configured(config)
       THEN /\ events' = Append(events, ErrorEvent("LLM not configured"))
            /\ pc' = "terminal"
            /\ UNCHANGED messages
       ELSE /\ messages' = <<SystemMessage, UserMessage(QueryOf(running))>>
            /\ events' = Append(events, ThinkingEvent(0))
            /\ pc' = "thinking"
    /\ UNCHANGED <<storeVars, config, readerVars, step, restore_actions, tool_calls, tc,
                   tool_args, tool_result, reply, exc, llm_calls, requested,
                   dispatched>>

\* Lines 104-139 and 162-185: the LLM call and what follows it up to the yield.
Think ==
    /\ pc = "thinking"
    /\ Asked(consumer)
    /\ \E out \in (IF parked = NoRun THEN LlmOutcomes(step, requested, messages)
                  ELSE ConcurrentOutcomes(step, requested)) :
        /\ reply' = out
        /\ llm_calls' = llm_calls + 1
        /\ IF out.kind = "raise"
           THEN /\ events' = Append(events, ErrorEvent("LLM call failed"))
                /\ pc' = "terminal"
                /\ UNCHANGED <<messages, tool_calls, tc, tool_args, exc,
                               requested>>
           ELSE IF ~Has(out.body, "choices")
           THEN /\ pc' = "raised"
                /\ exc' = "KeyError"
                /\ UNCHANGED <<messages, events, tool_calls, tc, tool_args,
                               requested>>
           ELSE IF out.body.choices = <<>>
           THEN /\ pc' = "raised"
                /\ exc' = "IndexError"
                /\ UNCHANGED <<messages, events, tool_calls, tc, tool_args,
                               requested>>
           ELSE LET message == out.body.choices[1].message
                    calls == Get(message, "tool_calls", <<>>)
                IN IF calls # <<>>
                   THEN /\ messages' = Append(messages, message)
                        /\ tool_calls' = calls
                        /\ tc' = 1
                        /\ tool_args' = ParseArguments(calls[1].function.arguments)
                        /\ requested' = requested + Len(calls)
                        /\ events' = Append(events,
                              ToolCallEvent(step, calls[1].function.name,
                                  ParseArguments(calls[1].function.arguments)))
                        /\ pc' = "tool_call"
                        /\ UNCHANGED exc
                   ELSE /\ IF restore_actions # <<>>
                           THEN /\ events' = Append(events,
                                                    ActionEvent(restore_actions))
                                /\ pc' = "action"
                           ELSE /\ events' = Append(events,
                                      AnswerEvent(Get(message, "content", ""), step))
                                /\ pc' = "terminal"
                        /\ UNCHANGED <<messages, tool_calls, tc, tool_args, exc,
                                       requested>>
    /\ UNCHANGED <<storeVars, config, readerVars, step, restore_actions, tool_result,
                   dispatched>>

\* Lines 141-153: the tool runs; its result is summarised for the consumer.
Dispatch ==
    /\ pc = "tool_call"
    /\ Asked(consumer)
    /\ LET name == tool_calls[tc].function.name
       IN \E fault \in FaultsOf(name), tie \in TiesOf(name), dim \in Dims :
            LET out == dispatch_tool(name, tool_args, index, fault, tie)
            IN /\ dispatched' = dispatched + 1
               /\ index' = IndexAfterTool(name, tool_args, index, dim, fault)
               /\ IF out.raised
                  THEN /\ pc' = "raised"
                       /\ exc' = out.exc
                       /\ UNCHANGED <<tool_result, restore_actions, events>>
                  ELSE /\ tool_result' = out.value
                       /\ restore_actions' =
                             IF /\ name = "batch_restore"
                                /\ Get(out.value, "action", "") = "batch_restore"
                             THEN Append(restore_actions, out.value)
                             ELSE restore_actions
                       /\ events' = Append(events,
                                           ToolResultEvent(step, name, out.value))
                       /\ pc' = "tool_result"
                       /\ UNCHANGED exc
    /\ UNCHANGED <<op, arg, fetched, ret, written, latest, config, readerVars,
                   step, messages, tool_calls, tc, tool_args, reply, llm_calls,
                   requested>>

\* Lines 155-160, then the next tool call (124-139), the next step (98-102)
\* or the end of the loop (187-192).
Observe ==
    /\ pc = "tool_result"
    /\ Asked(consumer)
    /\ messages' = Append(messages, ToolMessage(tool_calls[tc].id, tool_result))
    /\ IF tc < Len(tool_calls)
       THEN /\ tc' = tc + 1
            /\ tool_args' = ParseArguments(tool_calls[tc + 1].function.arguments)
            /\ events' = Append(events,
                  ToolCallEvent(step, tool_calls[tc + 1].function.name,
                      ParseArguments(tool_calls[tc + 1].function.arguments)))
            /\ pc' = "tool_call"
            /\ UNCHANGED step
       ELSE IF step + 1 < MAX_STEPS
       THEN /\ step' = step + 1
            /\ events' = Append(events, ThinkingEvent(step + 1))
            /\ pc' = "thinking"
            /\ UNCHANGED <<tc, tool_args>>
       ELSE /\ events' = Append(events, TruncatedEvent)
            /\ pc' = "terminal"
            /\ UNCHANGED <<step, tc, tool_args>>
    /\ UNCHANGED <<storeVars, config, readerVars, restore_actions, tool_calls, tool_result,
                   reply, exc, llm_calls, requested, dispatched>>

\* Lines 181-185, after the action event.
Answer ==
    /\ pc = "action"
    /\ Asked(consumer)
    /\ events' = Append(events,
          AnswerEvent(Get(reply.body.choices[1].message, "content", ""), step))
    /\ pc' = "terminal"
    /\ UNCHANGED <<storeVars, config, readerVars, step, messages, restore_actions,
                   tool_calls, tc, tool_args, tool_result, reply, exc,
                   llm_calls, requested, dispatched>>

\* The return after the last event (lines 86, 111, 185, 192).
Finish ==
    /\ pc = "terminal"
    /\ Asked(consumer)
    /\ pc' = "done"
    /\ UNCHANGED <<storeVars, config, readerVars, step, messages, restore_actions, events,
                   tool_calls, tc, tool_args, tool_result, reply, exc,
                   llm_calls, requested, dispatched>>

\* The consumer stops reading while the generator is suspended at a yield:
\* nobody calls __anext__ again.
StopReading ==
    /\ pc \in {"thinking", "tool_call", "tool_result", "action", "terminal"}
    /\ consumer = "reading"
    /\ consumer' = "stopped"
    /\ UNCHANGED <<storeVars, config, pc, step, messages, restore_actions,
                   events, tool_calls, tc, tool_args, tool_result, reply, exc,
                   llm_calls, requested, dispatched, running, parked>>

\* The consumer is cancelled while it waits for the next event and the
\* generator waits for the LLM (line 106): CancelledError is raised at the
\* await, `except Exception` does not catch it, `async with` closes the
\* HTTP client and the generator ends.
Abort ==
    /\ pc = "thinking"
    /\ Asked(consumer)
    /\ llm_calls' = llm_calls + 1
    /\ reply' = [kind |-> "cancelled"]
    /\ exc' = "CancelledError"
    /\ pc' = "cancelled"
    /\ consumer' = "stopped"
    /\ UNCHANGED <<storeVars, config, step, messages, restore_actions, events,
                   tool_calls, tc, tool_args, tool_result, requested,
                   dispatched, running, parked>>

Next ==
    Start \/ Think \/ Dispatch \/ Observe \/ Answer \/ Finish \/ StopReading
        \/ Abort

Spec == InitAgent /\ [][Next]_vars

(***************************************************************************)
(* SpecTwo: two queries served at once.  Both runs are generators on one   *)
(* event loop, so one of them executes at a time and the other is          *)
(* suspended at a yield with its locals kept in its frame; Switch lets the *)
(* event loop resume the other one.  The window in which a run waits for   *)
(* the LLM is the same suspension as the thinking yield before it: nothing *)
(* of the run executes between the two.                                    *)
(***************************************************************************)
\* The frame of the run that executes.
Locals ==
    [run |-> running, pc |-> pc, step |-> step, messages |-> messages,
     restore_actions |-> restore_actions, events |-> events,
     tool_calls |-> tool_calls, tc |-> tc, tool_args |-> tool_args,
     tool_result |-> tool_result, reply |-> reply, exc |-> exc,
     llm_calls |-> llm_calls, requested |-> requested,
     dispatched |-> dispatched, consumer |-> consumer]

\* The frame of a run that has not started.
IdleRun(run) ==
    [run |-> run, pc |-> "idle", step |-> 0, messages |-> <<>>,
     restore_actions |-> <<>>, events |-> <<>>, tool_calls |-> <<>>, tc |-> 0,
     tool_args |-> <<>>, tool_result |-> <<>>, reply |-> [kind |-> "none"],
     exc |-> "none", llm_calls |-> 0, requested |-> 0, dispatched |-> 0,
     consumer |-> "reading"]

InitTwo ==
    /\ index = AgentIndex
    /\ op = "init"
    /\ arg = NoArg
    /\ fetched = <<>>
    /\ ret = <<>>
    /\ NoHistory
    /\ config = [present |-> TRUE, api_key |-> "sk-1"]
    /\ FirstRunIdle
    /\ parked = IdleRun(2)

\* Mutant of OwnMessages: the conversation is one list shared by the runs.
SharedMessages(mine, current) == current

\* messages is a local of run_agent (line 89): a resumed run finds its own.
OwnMessages(mine, current) == mine

Switch ==
    /\ parked # NoRun
    /\ parked' = Locals
    /\ running' = parked.run
    /\ pc' = parked.pc
    /\ step' = parked.step
    /\ messages' = OwnMessages(parked.messages, messages)
    /\ restore_actions' = parked.restore_actions
    /\ events' = parked.events
    /\ tool_calls' = parked.tool_calls
    /\ tc' = parked.tc
    /\ tool_args' = parked.tool_args
    /\ tool_result' = parked.tool_result
    /\ reply' = parked.reply
    /\ exc' = parked.exc
    /\ llm_calls' = parked.llm_calls
    /\ requested' = parked.requested
    /\ dispatched' = parked.dispatched
    /\ consumer' = parked.consumer
    /\ UNCHANGED <<storeVars, config>>

NextTwo == Next \/ Switch

SpecTwo == InitTwo /\ [][NextTwo]_vars

(***************************************************************************)
(* SpecLlmSearch: requests to /api/llm-search and /api/llm/config.         *)
(***************************************************************************)
Queries == {"q0", "q1"}

PlainJson(d) == [fenced |-> FALSE, body |-> JsonText(d)]
FencedJson(d) == [fenced |-> TRUE, body |-> JsonText(d)]
NotJson == [fenced |-> FALSE, body |-> Malformed]

BodyWith(content) == [kind |-> "body",
                      body |-> [choices |-> <<[message |-> [content |-> content]]>>]]

LlmErrors ==
    {[kind |-> "transport"], [kind |-> "http_status"], [kind |-> "not_json"],
     [kind |-> "body", body |-> [error |-> "overloaded"]]}

KeywordOutcomes ==
    LlmErrors
    \cup {BodyWith(NotJson), BodyWith(PlainJson(<<>>)),
          BodyWith(PlainJson([keywords |-> <<>>])),
          BodyWith(PlainJson([keywords |-> <<"q1">>])),
          BodyWith(PlainJson([keywords |-> <<"q1", "q0">>])),
          BodyWith(FencedJson([keywords |-> <<"q0", "q1">>]))}

RerankOutcomes ==
    LlmErrors
    \cup {BodyWith(NotJson), BodyWith(PlainJson(<<>>)),
          BodyWith(PlainJson([scores |->
              <<[index |-> 0, score |-> [num |-> 20]],
                [index |-> 1, score |-> [num |-> 90]]>>])),
          BodyWith(FencedJson([scores |->
              <<[index |-> 1, score |-> [num |-> 100]],
                [index |-> 7, score |-> [num |-> 100]]>>])),
          BodyWith(PlainJson([scores |->
              <<[index |-> 0, score |-> [num |-> 80]],
                [index |-> 1, score |-> [text |-> "high"]]>>])),
          BodyWith(PlainJson([scores |-> <<[index |-> 0]>>]))}

InitLlmSearch ==
    /\ index \in {{}, AgentIndex}
    /\ op = "init"
    /\ arg = NoArg
    /\ fetched = <<>>
    /\ ret = <<>>
    /\ NoHistory
    /\ config \in Configs
    /\ AgentIdle

\* A request to POST /api/llm-search arrives.
ReceiveLlmSearch ==
    /\ op # "request"
    /\ \E query \in Queries, top_k \in 1..MaxTopK :
        /\ op' = "request"
        /\ arg' = [query |-> query, top_k |-> top_k]
    /\ ret' = <<>>
    /\ fetched' = <<>>
    /\ UNCHANGED <<index, written, latest, agentVars>>

\* POST /api/llm-search: the handler, from the request to its response.
LlmSearch ==
    /\ op = "request"
    /\ \E kw \in KeywordOutcomes, rr \in RerankOutcomes, tie \in TieOrders :
        /\ op' = "llm_search"
        /\ arg' = [query |-> arg.query, top_k |-> arg.top_k,
                   kw |-> kw, rr |-> rr, tie |-> tie]
        /\ ret' = llm_search(config, index, arg.query, arg.top_k, kw, rr, tie)
    /\ fetched' = <<>>
    /\ UNCHANGED <<index, written, latest, agentVars>>

\* POST /api/llm/config
SetLlmConfig ==
    /\ op # "request"
    /\ \E c \in Configs \ {NoConfig} :
        /\ config' = c
        /\ arg' = c
    /\ op' = "set_config"
    /\ ret' = <<>>
    /\ fetched' = <<>>
    /\ UNCHANGED <<index, written, latest, agentRunVars>>

NextLlmSearch == ReceiveLlmSearch \/ LlmSearch \/ SetLlmConfig

SpecLlmSearch == InitLlmSearch /\ [][NextLlmSearch]_vars

(***************************************************************************)
(* SpecHeuristics: rerank_by_heuristics, called with one candidate of any  *)
(* text shape, alone or in front of a second candidate.                    *)
(***************************************************************************)
\* A text of n non-empty lines of the same length, the first m of them
\* starting with a list marker.
ListText(n, m, chars, words) ==
    [page |-> "a", part |-> 0, words |-> words,
     lines |-> [i \in 1..n |-> [chars |-> chars, marker |-> (i <= m)]]]

Candidates ==
    {[url |-> "a", title |-> "t1", tab_id |-> 1, favicon |-> "", score |-> 5000,
      text |-> ListText(nm[1], nm[2], chars, words)] :
        nm \in {x \in (1..MaxLines) \X (0..MaxLines) : x[2] <= x[1]},
        chars \in {19, 20}, words \in {{}, {"q0"}}}

RivalDoc ==
    [url |-> "b", title |-> "t2", tab_id |-> 2, favicon |-> "", score |-> 4000,
     text |-> PageText("a", 0)]

\* A call of rerank_by_heuristics is about to be made.
InitHeuristics ==
    /\ index = {}
    /\ op = "call"
    /\ \E query \in Queries, doc \in Candidates, rest \in {<<>>, <<RivalDoc>>},
          top_k \in 1..MaxTopK :
            arg = [query |-> query, documents |-> <<doc>> \o rest,
                   top_k |-> top_k]
    /\ fetched = <<>>
    /\ ret = <<>>
    /\ NoHistory
    /\ config = NoConfig
    /\ AgentIdle

RerankByHeuristics ==
    /\ op = "call"
    /\ op' = "rerank_by_heuristics"
    /\ ret' = rerank_by_heuristics(arg.query, arg.documents, arg.top_k)
    /\ UNCHANGED <<index, arg, fetched, written, latest, agentVars>>

NextHeuristics == RerankByHeuristics

SpecHeuristics == InitHeuristics /\ [][NextHeuristics]_vars

(***************************************************************************)
(* vector_store._split_into_chunks.  A text is a sequence of characters;   *)
(* positions count from 0 as in the code and a slice [lo, hi) stands for   *)
(* text[lo:hi].  A chunk is the sequence of the stripped slices it was     *)
(* built from: one slice when it is appended, and one more, joined by a    *)
(* space, for every short segment merged into it.                          *)
(***************************************************************************)
CHUNK_SIZE == 400
CHUNK_OVERLAP == 100
MIN_CHUNK_SIZE == 50
SENTENCE_REGION == 80
SOFT_REGION == 40

\* The ASCII members of the two boundary classes and of what strip() trims.
SentenceEnds == {".", "!", "?", "\n"}
Whitespace == {" ", "\n", "\t"}
SoftBreaks == Whitespace \cup {",", ";"}

CharAt(text, p) == text[p + 1]

Max(a, b) == IF a > b THEN a ELSE b

\* The end of the last match of a character class in text[lo:hi], -1 when
\* the region has no match.
LastMatchEnd(text, lo, hi, class) ==
    LET at == {p \in lo..(hi - 1) : CharAt(text, p) \in class}
    IN IF at = {} THEN -1
       ELSE (CHOOSE p \in at : \A q \in at : q <= p) + 1

\* text[lo:hi].strip(), as the slice that is left: from its first character
\* that is not whitespace to its last one.
Strip(text, lo, hi) ==
    LET solid == {p \in lo..(hi - 1) : CharAt(text, p) \notin Whitespace}
    IN IF solid = {} THEN [lo |-> lo, hi |-> lo]
       ELSE [lo |-> CHOOSE p \in solid : \A q \in solid : p <= q,
             hi |-> (CHOOSE p \in solid :
                        \A q \in (p + 1)..(hi - 1) :
                            CharAt(text, q) \in Whitespace) + 1]

SliceLen(s) == s.hi - s.lo

\* len() of a chunk: its slices and the spaces that join them.
RECURSIVE ChunkLen(_)
ChunkLen(c) ==
    IF c = <<>> THEN 0
    ELSE SliceLen(c[1]) + (IF Len(c) > 1 THEN 1 ELSE 0) + ChunkLen(Tail(c))

\* The text itself as a chunk, unstripped.
WholeText(text) == <<[lo |-> 0, hi |-> Len(text)]>>

\* Where the window that starts at `start` is cut: after the last sentence
\* end of its last 80 characters, else after the last soft break of its
\* last 40 characters, else at its end.
CutPos(text, start) ==
    LET end == start + CHUNK_SIZE
        sentence == LastMatchEnd(text, Max(start, end - SENTENCE_REGION), end,
                                 SentenceEnds)
        soft == LastMatchEnd(text, Max(start, end - SOFT_REGION), end,
                             SoftBreaks)
    IN IF sentence # -1 THEN sentence
       ELSE IF soft # -1 THEN soft
       ELSE end

KeepsAnyPiece(piece) == SliceLen(piece) > 0

KeepsPiece(piece) == SliceLen(piece) >= MIN_CHUNK_SIZE

\* A cut segment: appended when long enough, merged into the previous
\* chunk when short and there is one, dropped otherwise.
AppendOrMerge(chunks, piece) ==
    IF KeepsPiece(piece) THEN Append(chunks, <<piece>>)
    ELSE IF SliceLen(piece) > 0 /\ chunks # <<>>
         THEN [chunks EXCEPT ![Len(chunks)] = Append(@, piece)]
    ELSE chunks

\* The remainder of the text: as a cut segment, but appended when short
\* and no chunk exists.
AppendLast(chunks, piece) ==
    IF SliceLen(piece) > 0 /\ chunks = <<>> THEN <<(<<piece>>)>>
    ELSE AppendOrMerge(chunks, piece)

NextStartRewinds(cut_pos) == cut_pos - CHUNK_SIZE

NextStart(cut_pos) ==
    LET start == cut_pos - CHUNK_OVERLAP
    IN IF start <= cut_pos - CHUNK_SIZE THEN cut_pos ELSE start

(***************************************************************************)
(* SpecSplit: one call of split_text, one loop iteration at a time.        *)
(*   op = "call"        the call is about to be made                       *)
(*        "split"       at the head of the while loop                      *)
(*        "split_text"  returned                                           *)
(* ret holds the locals of the call; when it has returned, ret.chunks is   *)
(* the list returned.                                                      *)
(* The texts are those index_page passes: stripped and not empty.          *)
(***************************************************************************)
MaxRuns == 3

RunOptions ==
    ({"x"} \X {3, 45, 300, 330}) \cup ({".", ",", "\n"} \X {1})
        \cup ({" "} \X {60, 400})

RECURSIVE Expand(_)
Expand(runs) ==
    IF runs = <<>> THEN <<>>
    ELSE [i \in 1..runs[1][2] |-> runs[1][1]] \o Expand(Tail(runs))

Texts ==
    {Expand(runs) : runs \in {r \in SeqsOf(RunOptions, 1, MaxRuns) :
                                 /\ r[1][1] \notin Whitespace
                                 /\ r[Len(r)][1] \notin Whitespace}}

SplitLocals == [start |-> 0, cut_pos |-> 0, chunks |-> <<>>, broke |-> FALSE]

InitSplit ==
    /\ index = {}
    /\ op = "call"
    /\ \E text \in Texts : arg = [text |-> text]
    /\ fetched = <<>>
    /\ ret = SplitLocals
    /\ NoHistory
    /\ config = NoConfig
    /\ AgentIdle

\* Lines 44-49: a text of at most CHUNK_SIZE characters is returned whole.
SplitEnter ==
    /\ op = "call"
    /\ IF Len(arg.text) <= CHUNK_SIZE
       THEN /\ op' = "split_text"
            /\ ret' = [ret EXCEPT !.chunks = IF arg.text = <<>> THEN <<>>
                                             ELSE <<WholeText(arg.text)>>]
       ELSE /\ op' = "split"
            /\ ret' = SplitLocals
    /\ UNCHANGED <<index, arg, fetched, written, latest, agentVars>>

\* One iteration of the while loop: the remainder of the text when the
\* window reaches its end (lines 54-64), a cut of the window otherwise.
SplitWindow ==
    /\ op = "split"
    /\ ~ret.broke
    /\ ret.start < Len(arg.text)
    /\ IF ret.start + CHUNK_SIZE >= Len(arg.text)
       THEN \E chunk \in {Strip(arg.text, ret.start, Len(arg.text))} :
               ret' = [ret EXCEPT !.chunks = AppendLast(@, chunk),
                                  !.broke = TRUE]
       ELSE \E cut_pos \in {CutPos(arg.text, ret.start)} :
            \E chunk \in {Strip(arg.text, ret.start, cut_pos)} :
               ret' = [start |-> NextStart(cut_pos),
                       cut_pos |-> cut_pos,
                       chunks |-> AppendOrMerge(ret.chunks, chunk),
                       broke |-> FALSE]
    /\ UNCHANGED <<index, op, arg, fetched, written, latest, agentVars>>

\* Line 102, reached by the break or by the loop condition.
SplitReturn ==
    /\ op = "split"
    /\ ret.broke \/ ret.start >= Len(arg.text)
    /\ op' = "split_text"
    /\ ret' = [ret EXCEPT !.chunks = IF @ # <<>> THEN @
                                      ELSE <<WholeText(arg.text)>>]
    /\ UNCHANGED <<index, arg, fetched, written, latest, agentVars>>

NextSplit == SplitEnter \/ SplitWindow \/ SplitReturn

SpecSplit == InitSplit /\ [][NextSplit]_vars

\* The loop is not suspended between its iterations.
SpecSplitFair == SpecSplit /\ WF_vars(NextSplit)

(***************************************************************************)
(* SpecOpen: vector_store._get_collection across restarts of the process.  *)
(*   index  the records of the persisted collection                        *)
(*   arg    whether the collection exists on disk, and the dimension of    *)
(*          its vectors (ChromaDB keeps one dimension per collection)      *)
(*   ret    the process: whether _collection is set, and how the last      *)
(*          access went                                                    *)
(***************************************************************************)
InitOpen ==
    /\ index \in {{}, {LegacyRow("a")}, AgentIndex}
    /\ op = "boot"
    /\ \E exists \in BOOLEAN, dim \in Dims :
          /\ index # {} => exists
          /\ ~exists => dim = EXPECTED_DIM
          /\ arg = [exists |-> exists, dim |-> dim]
    /\ fetched = <<>>
    /\ ret = [opened |-> FALSE, raised |-> FALSE, fault |-> "none"]
    /\ NoHistory
    /\ config = NoConfig
    /\ AgentIdle

\* init() at startup, or the call at the head of an index operation.
GetCollection ==
    /\ \E fault \in IF ret.opened THEN {"none"} ELSE OpenFaults :
          LET out == _get_collection([exists |-> arg.exists, dim |-> arg.dim,
                                      rows |-> index], ret.opened, fault)
          IN /\ index' = out.store.rows
             /\ arg' = [exists |-> out.store.exists, dim |-> out.store.dim]
             /\ ret' = [opened |-> out.opened, raised |-> out.raised,
                        fault |-> fault]
    /\ op' = "_get_collection"
    /\ UNCHANGED <<fetched, written, latest, agentVars>>

\* add_page in a process that has the collection open; the upsert of
\* vectors of EXPECTED_DIM is rejected by a collection of another dimension.
WritePage ==
    /\ ret.opened
    /\ \E url \in Urls, vecs \in PlainPages :
          index' = add_page(index, url, "t1", TabIdOf(url), vecs,
                            IF arg.dim = EXPECTED_DIM THEN "none"
                            ELSE "upsert").col
    /\ op' = "add_page"
    /\ UNCHANGED <<arg, ret, fetched, written, latest, agentVars>>

\* The process ends and a new one starts: _collection is None again.
Restart ==
    /\ ret.opened
    /\ ret' = [opened |-> FALSE, raised |-> FALSE, fault |-> "none"]
    /\ op' = "boot"
    /\ UNCHANGED <<index, arg, fetched, written, latest, agentVars>>

NextOpen == GetCollection \/ WritePage \/ Restart

SpecOpen == InitOpen /\ [][NextOpen]_vars

(***************************************************************************)
(* Properties of a run of the agent (specification Spec).                  *)
(***************************************************************************)
CountType(t) == Cardinality({i \in DOMAIN events : events[i].type = t})

LastEvent == events[Len(events)]

KnownTools == {"search_tabs", "read_tab", "list_tabs", "batch_restore"}

\* The positions of the assistant messages in the conversation.
AssistantAt == {i \in DOMAIN messages : messages[i].role = "assistant"}

\* The last LLM call did not produce a choice message.
LlmFailed ==
    \/ reply.kind = "raise"
    \/ /\ reply.kind = "body"
       /\ (~Has(reply.body, "choices") \/ reply.body.choices = <<>>)

LastMessageOfLlm == reply.body.choices[1].message

\* The last LLM reply was a message without tool calls.
FinalReply ==
    /\ reply.kind = "body"
    /\ ~LlmFailed
    /\ Get(LastMessageOfLlm, "tool_calls", <<>>) = <<>>

\* An exception left run_agent while a tool call was being dispatched.
RaisedInDispatch == pc = "raised" /\ reply.kind = "body" /\ ~LlmFailed

RECURSIVE AcceptedFrom(_)
\* The urls of the accepted batch_restore calls, from the tool-result
\* messages of the conversation, in order.
AcceptedFrom(msgs) ==
    IF msgs = <<>> THEN <<>>
    ELSE LET m == Head(msgs)
         IN (IF m.role = "tool" /\ Has(m.content.of, "action")
             THEN m.content.of.urls ELSE <<>>) \o AcceptedFrom(Tail(msgs))

AcceptedUrls == AcceptedFrom(messages)

FirstIndex(s, x) == CHOOSE i \in 1..Len(s) : s[i] = x /\ \A j \in 1..(i - 1) : s[j] # x

\* out lists the elements of in once each, ordered by first occurrence.
FirstOccurrences(out, in) ==
    /\ Range(out) = Range(in)
    /\ \A i, j \in 1..Len(out) :
          i < j => out[i] # out[j] /\ FirstIndex(in, out[i]) < FirstIndex(in, out[j])

\* C1 (as claimed): at most MAX_STEPS LLM calls are made, and once MAX_STEPS
\* replies have all requested tool calls the run is not ended by an
\* exception and, when it has ended, its events hold no error event and
\* exactly one answer event, the last one, with truncated = TRUE and
\* steps_used = MAX_STEPS.
C1_TruncatedAfterMaxSteps ==
    /\ llm_calls <= MAX_STEPS
    /\ Cardinality(AssistantAt) = MAX_STEPS =>
          /\ pc # "raised"
          /\ pc \in {"terminal", "done"} =>
                /\ CountType("answer") = 1
                /\ CountType("error") = 0
                /\ LastEvent.type = "answer"
                /\ Get(LastEvent, "truncated", FALSE) = TRUE
                /\ LastEvent.steps_used = MAX_STEPS

\* C2: when the run ends with a final reply after accepted batch_restore
\* calls, there is exactly one action event, it is directly before the
\* answer event, its urls are the accepted urls in first-occurrence order
\* without duplicates and its count is their number.
C2_OneActionBeforeAnswer ==
    (FinalReply /\ pc \in {"terminal", "done"} /\ AcceptedUrls # <<>>) =>
        /\ CountType("action") = 1
        /\ Len(events) >= 2
        /\ LastEvent.type = "answer"
        /\ events[Len(events) - 1].type = "action"
        /\ FirstOccurrences(events[Len(events) - 1].urls, AcceptedUrls)
        /\ events[Len(events) - 1].count = Len(events[Len(events) - 1].urls)

\* C2 witness: [a, b] then [b, c] were accepted and the action event
\* carries [a, b, c] with count 3.
C2_Witness ==
    /\ FinalReply /\ pc = "done"
    /\ AcceptedUrls = <<"a", "b", "b", "c">>
    /\ events[Len(events) - 1].type = "action"
    /\ events[Len(events) - 1].urls = <<"a", "b", "c">>
    /\ events[Len(events) - 1].count = 3

\* C3: a reply without tool calls at step n ends the run answered: one
\* answer event, the last event, with steps_used = n, and no action event
\* when no restore was accepted.
C3_AnsweredAtStep ==
    (FinalReply /\ pc \in {"terminal", "done"}) =>
        /\ CountType("answer") = 1
        /\ CountType("error") = 0
        /\ LastEvent.type = "answer"
        /\ ~Has(LastEvent, "truncated")
        /\ LastEvent.steps_used = llm_calls
        /\ LastEvent.steps_used = CountType("thinking")
        /\ AcceptedUrls = <<>> => CountType("action") = 0

\* C3 witness: the first reply has no tool calls; the stream is a thinking
\* event and an answer event with steps_used = 1.
C3_Witness ==
    /\ FinalReply /\ pc = "done" /\ llm_calls = 1
    /\ Len(events) = 2
    /\ LastEvent.type = "answer" /\ LastEvent.steps_used = 1

\* C4 (as claimed): a tool call whose arguments text is not JSON never ends
\* the run: its arguments are the empty dict, and its dispatch yields a
\* tool_result event instead of an exception.
C4_MalformedArgumentsDegrade ==
    (tc > 0 /\ ~LlmFailed /\ pc \in {"tool_call", "tool_result", "raised"}
        /\ tool_calls[tc].function.arguments = Malformed) =>
        /\ tool_args = <<>>
        /\ ~(RaisedInDispatch /\ exc = "KeyError")
        /\ pc = "tool_result" => LastEvent.type = "tool_result"

\* C5 (as claimed): when the LLM call fails, also with a reply that holds
\* no choice message, the run ends with exactly one error event, the last
\* event, and no exception leaves it.
C5_LlmFailureEmitsError ==
    LlmFailed =>
        /\ pc \in {"terminal", "done"}
        /\ CountType("error") = 1
        /\ CountType("answer") = 0
        /\ LastEvent.type = "error"

\* C6 (as claimed): a tool that fails while executing never breaks the
\* stream: no exception of a collaborator leaves run_agent, and a read of
\* a url that is not indexed gives a tool_result event with status error.
C6_ToolFailureRecoverable ==
    /\ ~(RaisedInDispatch /\ exc = "CollaboratorError")
    /\ (pc = "tool_result" /\ tool_calls[tc].function.name = "read_tab"
           /\ ColGetWhere(index, _url_to_id(tool_args.url)) = {}) =>
          /\ Has(tool_result, "error")
          /\ LastEvent.type = "tool_result"
          /\ LastEvent.result.status = "error"

\* The tool calls requested so far, in order, and the tool_result events.
RECURSIVE CallsOf(_)
CallsOf(msgs) ==
    IF msgs = <<>> THEN <<>>
    ELSE Get(Head(msgs), "tool_calls", <<>>) \o CallsOf(Tail(msgs))

ResultEventsAt == {i \in DOMAIN events : events[i].type = "tool_result"}

\* The position in events of the k-th tool_result event.
ResultEventPos(k) ==
    CHOOSE i \in ResultEventsAt :
        Cardinality({j \in ResultEventsAt : j <= i}) = k

\* The number of the step whose reply is the assistant message at p.
StepOfAssistant(p) == Cardinality({q \in AssistantAt : q <= p})

\* C7: a call of a tool that is none of the four never ends the run; it is
\* answered by a tool-result message with its id and an error payload, by
\* a tool_result event with status error, and the loop goes on: when it was
\* the last call of a step before MAX_STEPS, the next step's thinking event
\* follows.
C7_UnknownToolFedBack ==
    /\ RaisedInDispatch => tool_calls[tc].function.name \in KnownTools
    /\ \A p \in AssistantAt :
          \A j \in 1..Len(messages[p].tool_calls) :
             LET call == messages[p].tool_calls[j]
                 n == Len(messages[p].tool_calls)
             IN (call.function.name \notin KnownTools /\ Len(messages) >= p + j) =>
                   /\ messages[p + j].role = "tool"
                   /\ messages[p + j].tool_call_id = call.id
                   /\ Has(messages[p + j].content.of, "error")
                   /\ (Len(messages) >= p + n /\ StepOfAssistant(p) < MAX_STEPS) =>
                         \E e \in DOMAIN events :
                            /\ events[e].type = "thinking"
                            /\ events[e].step = StepOfAssistant(p) + 1
    /\ \A k \in 1..Cardinality(ResultEventsAt) :
          LET call == CallsOf(messages)[k]
              ev == events[ResultEventPos(k)]
          IN call.function.name \notin KnownTools =>
                /\ ev.tool = call.function.name
                /\ ev.result.status = "error"

\* C7 witness: an unknown tool was called at step 1, its error went into
\* the conversation, and step 2 made its LLM call.
C7_Witness ==
    /\ llm_calls = 2
    /\ \E p \in AssistantAt :
          /\ messages[p].tool_calls[1].function.name = "open_tab"
          /\ Len(messages) > p
          /\ messages[p + 1].content.of = [error |-> "unknown tool"]
    /\ \E e \in DOMAIN events :
          /\ events[e].type = "tool_result" /\ events[e].tool = "open_tab"
          /\ events[e].result.status = "error"

\* C8: without a configured provider (no configuration, or an empty api key)
\* the run emits one error event with a message and ends; there is no
\* thinking event, no LLM call and no tool dispatch.
C8_NotConfigured ==
    (~config.present \/ config.api_key = "") =>
        /\ llm_calls = 0
        /\ dispatched = 0
        /\ CountType("thinking") = 0
        /\ pc \in {"idle", "terminal", "done"}
        /\ pc = "idle" => events = <<>>
        /\ pc # "idle" => events = <<ErrorEvent("LLM not configured")>>

\* C8 witness: a configuration with an empty api key; the run is over with
\* its single error event.
C8_Witness ==
    /\ config.present /\ config.api_key = ""
    /\ pc = "done"
    /\ Len(events) = 1 /\ events[1].type = "error"

(***************************************************************************)
(* Properties of the index operations (specification SpecIndex).           *)
(***************************************************************************)
\* The urls among the rows col.query returned.
FetchedOf(url) == {i \in DOMAIN fetched : fetched[i].meta.url = url}

\* C10: search returns at most top_k results, no two with the same url,
\* in non-increasing score order, each with the highest similarity
\* round(1 - distance, 4) among the fetched rows of its url.
C10_SearchResults ==
    op = "search" =>
        /\ Len(ret) <= arg.top_k
        /\ \A i, j \in 1..Len(ret) : i < j =>
              /\ ret[i].url # ret[j].url
              /\ ret[i].score >= ret[j].score
        /\ \A i \in 1..Len(ret) :
              /\ FetchedOf(ret[i].url) # {}
              /\ \A f \in FetchedOf(ret[i].url) :
                    ret[i].score >= ScoreOfDistance(fetched[f].distance)
              /\ \E f \in FetchedOf(ret[i].url) :
                    ret[i].score = ScoreOfDistance(fetched[f].distance)

\* C10 witness: a search over two pages, one of them with chunks at
\* different distances, returned both pages, the better one first.
C10_Witness ==
    /\ op = "search"
    /\ Len(ret) = 2
    /\ ret[1].score > ret[2].score
    /\ \E f, g \in FetchedOf(ret[1].url) :
          fetched[f].distance # fetched[g].distance

\* A search ran directly after a successful add_page, its query vector one
\* of the vectors just written.
SearchAfterWrite ==
    /\ op = "search"
    /\ written # NoArg
    /\ arg.query_embedding \in Range(written.vecs)

\* The records of other pages that hold the query vector.
OtherHolders ==
    {r \in index : r.meta.url # written.url /\ r.vec = arg.query_embedding}

\* C11 (as claimed): a search directly after a successful write, with one
\* of the written vectors, returns the written page as its first result
\* with score 1.0, whatever else the index holds.
C11_WrittenPageFirst ==
    SearchAfterWrite =>
        /\ ret # <<>>
        /\ ret[1].url = written.url
        /\ ret[1].score = 10000

\* C11 (amended): such a search returns a first result of score 1.0 and no
\* higher score; the written page is the first result when no other page
\* holds that vector, and it is among the results, with score 1.0, when
\* the other pages holding the vector are fewer than top_k and their
\* records fewer than the fetch size.
C11_WrittenPageScoresOne ==
    SearchAfterWrite =>
        /\ ret # <<>>
        /\ ret[1].score = 10000
        /\ \A i \in 1..Len(ret) : ret[i].score <= 10000
        /\ OtherHolders = {} => ret[1].url = written.url
        /\ (/\ Cardinality({r.meta.url : r \in OtherHolders}) < arg.top_k
            /\ Cardinality(OtherHolders) < FetchK(index, arg.top_k)) =>
              \E i \in 1..Len(ret) :
                 ret[i].url = written.url /\ ret[i].score = 10000

\* C11 witness: the search after the write found the written page first
\* with score 1.0 and another page behind it.
C11_Witness ==
    /\ SearchAfterWrite
    /\ Len(ret) = 2
    /\ ret[1].url = written.url
    /\ ret[1].score = 10000
    /\ ret[2].score < 10000

(***************************************************************************)
(* Properties of the page operations (specification SpecPages).            *)
(***************************************************************************)
\* The records of a page in a collection.
RowsOf(col, url) == {r \in col : r.meta.url = url}

\* C12 (as claimed): after a successful add_page the records of the page
\* are exactly the chunks just written: ordinals 0..n-1, each with
\* total_chunks = n, and no record of an earlier version, one of the legacy
\* shape included.
C12_OnlyNewChunksRemain ==
    (op = "add_page" /\ ~ret.raised) =>
        RowsOf(index, arg.url) =
            NewRows(arg.url, arg.title, TabIdOf(arg.url), arg.vecs)

\* C13 (as claimed): an add_page that fails because the collection rejects
\* the batch leaves a page that was indexed before with the records it
\* had, or with the complete new ones, never with none or a mixture.
C13_FailedWriteNotPartial ==
    [][(op' = "add_page" /\ ret'.raised /\ RowsOf(index, arg'.url) # {}) =>
          RowsOf(index', arg'.url) \in
             {RowsOf(index, arg'.url),
              NewRows(arg'.url, arg'.title, TabIdOf(arg'.url), arg'.vecs)}]_vars

\* C14: delete(url) does not raise, also when a call on the collection
\* does; it returns TRUE exactly when the page had records and some were
\* removed, which without a failing call means exactly when the page had
\* records, all of them (chunks and legacy record) being removed; it
\* returns FALSE and leaves the index as it was when the page had none;
\* it never touches the records of another url.
C14_DeleteReportsRemoval ==
    [][op' = "delete" =>
          LET before == RowsOf(index, arg'.url)
              after == RowsOf(index', arg'.url)
          IN /\ ~ret'.raised
             /\ after \subseteq before
             /\ ret'.value = (before # {} /\ after # before)
             /\ ~arg'.faulty => (ret'.value = (before # {}) /\ after = {})
             /\ before = {} => (ret'.value = FALSE /\ index' = index)
             /\ \A u \in Urls \ {arg'.url} :
                   RowsOf(index', u) = RowsOf(index, u)]_vars

\* C14 witness: a delete without a failing call returned TRUE, the page has
\* no record left and the other page still has its records.
C14_Witness ==
    /\ op = "delete" /\ ~arg.faulty
    /\ ret.value = TRUE
    /\ RowsOf(index, arg.url) = {}
    /\ \E u \in Urls \ {arg.url} : Cardinality(RowsOf(index, u)) >= 2

\* The positions of a url in the list get_all returned.
ListedAt(url) == {i \in DOMAIN ret : ret[i].url = url}

\* C15 (as claimed): get_all lists a url once, with the title and the chunk
\* count of its last write, when its last operation was a successful
\* add_page, and not at all when its last operation was a delete.
C15_ListMatchesLastOperation ==
    op = "get_all" =>
        \A u \in Urls :
           /\ latest[u].op = "delete" => ListedAt(u) = {}
           /\ latest[u].op = "add_page" =>
                 /\ Cardinality(ListedAt(u)) = 1
                 /\ \A i \in ListedAt(u) :
                       /\ ret[i].title = latest[u].title
                       /\ ret[i].chunks = latest[u].chunks

(***************************************************************************)
(* Properties of the LLM search route (specification SpecLlmSearch).       *)
(***************************************************************************)
\* A request was handled while no provider was configured.
UnconfiguredSearch ==
    op = "llm_search" /\ (~config.present \/ config.api_key = "")

\* C9 (as claimed): without a configured provider an LLM-search request
\* fails at once with a message: the index is not queried, nothing is
\* reranked and no results are returned.
C9_UnconfiguredFailsAtOnce ==
    UnconfiguredSearch =>
        /\ ret.searches = 0
        /\ ret.rerank_mode = "none"
        /\ ret.raised \/ ret.response.results = <<>>

\* C9 (amended): without a configured provider an LLM-search request is
\* answered, not failed: the response carries the message in llm_error and
\* the raw query as its only keyword, the index is queried once, and the
\* hits come back reranked by the heuristic, at most top_k of them and at
\* least one when the index holds a page.
C9_UnconfiguredDegrades ==
    UnconfiguredSearch =>
        /\ ~ret.raised
        /\ ret.response.llm_error = "LLM not configured"
        /\ ret.response.keywords = <<arg.query>>
        /\ ret.searches = 1
        /\ ret.rerank_mode = (IF index = {} THEN "none" ELSE "heuristics")
        /\ Len(ret.response.results) <= arg.top_k
        /\ index # {} => ret.response.results # <<>>
        /\ \A i \in 1..Len(ret.response.results) :
              \E r \in index : r.meta.url = ret.response.results[i].url

\* C9 witness: an unconfigured request over a filled index came back with
\* two results and the message.
C9_Witness ==
    /\ UnconfiguredSearch
    /\ ~ret.raised
    /\ Len(ret.response.results) = 2
    /\ ret.response.llm_error = "LLM not configured"
    /\ ret.rerank_mode = "heuristics"

\* What search returned for one keyword of the handled request.
RecalledFor(keyword) ==
    search(index, Encode(keyword), RecallTopK(arg.top_k), TRUE, arg.tie)

\* The scores a url got over the keywords of the handled request.
RecalledScores(url) ==
    UNION {{r.score : r \in {x \in Range(RecalledFor(kw)) : x.url = url}} :
              kw \in Range(ret.response.keywords)}

\* C16: the candidates handed to the reranker hold each url at most once
\* and exactly the urls some keyword recalled, each with the highest score
\* it got over the keywords, in non-increasing score order.
C16_MergedCandidates ==
    (op = "llm_search" /\ ~ret.raised) =>
        LET merged == ret.candidates
        IN /\ \A i, j \in 1..Len(merged) : i < j =>
                 /\ merged[i].url # merged[j].url
                 /\ merged[i].score >= merged[j].score
           /\ \A u \in Urls :
                 (RecalledScores(u) # {}) = (\E i \in 1..Len(merged) : merged[i].url = u)
           /\ \A i \in 1..Len(merged) :
                 /\ merged[i].score \in RecalledScores(merged[i].url)
                 /\ \A x \in RecalledScores(merged[i].url) : x <= merged[i].score

\* C16 witness: two keywords recalled url b with different scores, the
\* lower one first, and the candidate of b has the higher one.
C16_Witness ==
    /\ op = "llm_search" /\ ~ret.raised
    /\ Len(ret.response.keywords) = 2
    /\ Cardinality(RecalledScores("b")) = 2
    /\ \E i \in 1..Len(RecalledFor(ret.response.keywords[1])) :
          /\ RecalledFor(ret.response.keywords[1])[i].url = "b"
          /\ RecalledFor(ret.response.keywords[1])[i].score < 10000
    /\ \E i \in 1..Len(ret.candidates) :
          ret.candidates[i].url = "b" /\ ret.candidates[i].score = 10000

\* A request was handled while a provider was configured.
ConfiguredSearch ==
    op = "llm_search" /\ config.present /\ config.api_key # ""

\* The provider's reply to the keyword call gave no keyword: the call
\* failed, its body or its content was no JSON or held no choice, or the
\* keyword list was missing or empty.
NoKeywordGenerated ==
    \/ arg.kw.kind # "body"
    \/ ~Has(arg.kw.body, "choices")
    \/ /\ Has(arg.kw.body, "choices")
       /\ LET content == arg.kw.body.choices[1].message.content.body
          IN \/ content = Malformed
             \/ /\ content # Malformed
                /\ Get(content.of, "keywords", <<>>) = <<>>

\* C17 (as claimed): whatever way keyword generation fails, the request is
\* not aborted: the raw query is the only keyword, the index is searched
\* with it and a response is produced.
C17_KeywordFailureFallsBack ==
    (ConfiguredSearch /\ NoKeywordGenerated) =>
        /\ ~ret.raised
        /\ ret.response.keywords = <<arg.query>>
        /\ ret.searches = 1

\* C18 (as claimed): when LLM reranking fails (the call fails, the reply
\* cannot be parsed, or its score list is only partly usable) the request
\* is answered with the first min(top_k, n) candidates in their input
\* order, each with the score it had as a candidate.
C18_RerankFailureUnranked ==
    (ConfiguredSearch /\ ~ret.raised /\ ret.rerank_mode = "fallback") =>
        /\ Len(ret.response.results) = Min(arg.top_k, Len(ret.candidates))
        /\ \A i \in 1..Len(ret.response.results) :
              /\ ret.response.results[i].url = ret.candidates[i].url
              /\ ret.response.results[i].score = Score(ret.candidates[i].score, 4)

\* C19: a rerank that succeeds, in LLM mode or in heuristic mode, returns
\* min(top_k, n) of the n candidates, none of them twice, in non-increasing
\* order of final score; a score entry for an index outside the candidates
\* adds nothing.
C19_RerankSortsAndTruncates ==
    (op = "llm_search" /\ ~ret.raised
        /\ ret.rerank_mode \in {"llm", "heuristics"}) =>
        LET results == ret.response.results
        IN /\ Len(results) = Min(arg.top_k, Len(ret.candidates))
           /\ \A i \in 1..Len(results) :
                 \E c \in 1..Len(ret.candidates) :
                    /\ ret.candidates[c].url = results[i].url
                    /\ ret.candidates[c].title = results[i].title
           /\ \A i, j \in 1..Len(results) : i < j =>
                 /\ results[i].url # results[j].url
                 /\ results[i].score.e = results[j].score.e
                 /\ results[i].score.v >= results[j].score.v

\* C19 witness: the LLM scored candidate 1 and an index that does not
\* exist; the two candidates came back with the second one first.
C19_Witness ==
    /\ op = "llm_search" /\ ~ret.raised
    /\ ret.rerank_mode = "llm"
    /\ \E e \in Range(Get(arg.rr.body.choices[1].message.content.body.of,
                            "scores", <<>>)) : e.index = 7
    /\ Len(ret.candidates) = 2
    /\ Len(ret.response.results) = 2
    /\ ret.response.results[1].url = ret.candidates[2].url

(***************************************************************************)
(* Properties of the heuristic reranker (specification SpecHeuristics).    *)
(***************************************************************************)
\* The lines of a reranked candidate that start with a list marker.
MarkerLines(doc) == {i \in DOMAIN doc.text.lines : doc.text.lines[i].marker}

\* C20: the final score of a candidate is its score times 0.6 when more
\* than half of its non-empty lines start with a list marker, times 0.7
\* when its average line length is under 20, both when both hold, and
\* times the bonus; a text that is a list by exactly half or less gets no
\* list penalty.
C20_ListPenalty ==
    op = "rerank_by_heuristics" =>
        \A i \in 1..Len(ret) :
           LET doc == ret[i]
               n == Len(doc.text.lines)
               listy == 2 * Cardinality(MarkerLines(doc)) > n
               short == SumChars(doc.text.lines) < 20 * n
           IN doc.final_score =
                 Score(doc.score * (IF short THEN 7 ELSE 10)
                                 * (IF listy THEN 6 ELSE 10)
                                 * Bonus(arg.query, doc.text), 8)

\* C20 witness: a candidate of 10 short lines, 6 of them list items, got
\* 0.7 * 0.6 of its score.
C20_Witness ==
    /\ op = "rerank_by_heuristics"
    /\ \E i \in 1..Len(ret) :
          /\ Len(ret[i].text.lines) = 10
          /\ Cardinality(MarkerLines(ret[i])) = 6
          /\ ret[i].text.lines[1].chars = 19
          /\ ret[i].text.words = {}
          /\ ret[i].final_score = Score(ret[i].score * 42 * 100, 8)

(***************************************************************************)
(* Properties of the chunker (specifications SpecSplit, SpecSplitFair).    *)
(***************************************************************************)
\* The positions of the text that the returned chunks hold.
Covered(chunks) ==
    UNION {UNION {s.lo..(s.hi - 1) : s \in Range(c)} : c \in Range(chunks)}

\* C21: for a text longer than CHUNK_SIZE, every character of the text
\* that is not whitespace lies in at least one returned chunk.
C21_ChunksCoverText ==
    op = "split_text" /\ Len(arg.text) > CHUNK_SIZE =>
        \A p \in 0..(Len(arg.text) - 1) :
            CharAt(arg.text, p) \notin Whitespace => p \in Covered(ret.chunks)

\* C22: no returned chunk is longer than CHUNK_SIZE, a chunk that a short
\* segment was merged into included.
C22_ChunkWithinWindow ==
    op = "split_text" => \A i \in 1..Len(ret.chunks) : ChunkLen(ret.chunks[i]) <= CHUNK_SIZE

\* C23: for a text longer than CHUNK_SIZE every returned chunk is non-empty,
\* and has at least MIN_CHUNK_SIZE characters unless it is the only one.
C23_ChunkAtLeastMinimum ==
    op = "split_text" /\ Len(arg.text) > CHUNK_SIZE =>
        /\ Len(ret.chunks) >= 1
        /\ \A i \in 1..Len(ret.chunks) :
              /\ ChunkLen(ret.chunks[i]) > 0
              /\ Len(ret.chunks) > 1 => ChunkLen(ret.chunks[i]) >= MIN_CHUNK_SIZE

\* C23 witness: several chunks were returned and a short segment was
\* merged into one of them.
C23_Witness ==
    /\ op = "split_text"
    /\ Len(arg.text) > CHUNK_SIZE
    /\ Len(ret.chunks) > 1
    /\ \E i \in 1..Len(ret.chunks) :
          Len(ret.chunks[i]) > 1 /\ SliceLen(ret.chunks[i][2]) < MIN_CHUNK_SIZE

\* C24: every iteration that cuts the window cuts it after its start, at
\* most CHUNK_SIZE characters further and inside the text, and the next
\* window starts after the start of this one; every call returns.
C24_WindowAdvances ==
    /\ [][op = "split" /\ op' = "split" /\ ret' # ret =>
             /\ ret'.broke \/ ret'.cut_pos > ret.start
             /\ ret'.broke \/ ret'.cut_pos <= ret.start + CHUNK_SIZE
             /\ ret'.broke \/ ret'.cut_pos <= Len(arg.text)
             /\ ret'.broke \/ ret'.start > ret.start]_vars
    /\ <>(op = "split_text")

\* C24 witness: the loop has cut a second window, after a sentence end or
\* a soft break.
C24_Witness ==
    /\ op = "split"
    /\ ~ret.broke
    /\ ret.cut_pos > CHUNK_SIZE
    /\ ret.cut_pos < 2 * CHUNK_SIZE - CHUNK_OVERLAP

(***************************************************************************)
(* Properties of cancelled and of concurrent runs (Spec, SpecTwo).         *)
(***************************************************************************)
\* C25: once the consumer of a run has stopped reading its events, the run
\* makes no LLM call and no tool dispatch, its conversation and its
\* pending-restore list stay as they are, and it yields no event.
C25_StoppedRunDoesNothing ==
    [][consumer = "stopped" =>
          UNCHANGED <<llm_calls, dispatched, messages, restore_actions, events,
                      pc>>]_vars

\* C25 witness: the consumer stopped reading after a tool_call event of a
\* run that had accepted a batch_restore; the tool call is not dispatched.
C25_Witness ==
    /\ consumer = "stopped"
    /\ pc = "tool_call"
    /\ restore_actions # <<>>
    /\ dispatched < requested

\* The query a message of a conversation belongs to: the query a user
\* message states, the run the provider issued a tool-call id to.
OwnerOf(m) ==
    CASE m.role = "user" -> IF m.content = UserQuery THEN 1 ELSE 2
      [] m.role = "assistant" -> m.tool_calls[1].id[2]
      [] m.role = "tool" -> m.tool_call_id[2]
      [] OTHER -> 0

\* The urls of the batch_restore calls of a run that were accepted, from
\* the tool_call and tool_result events its consumer received.
AcceptedBy(frame) ==
    UNION {Range(frame.events[i].arguments.urls) :
            i \in {j \in 1..(Len(frame.events) - 1) :
                      /\ frame.events[j].type = "tool_call"
                      /\ frame.events[j].tool = "batch_restore"
                      /\ Has(frame.events[j].arguments, "urls")
                      /\ frame.events[j + 1].type = "tool_result"
                      /\ frame.events[j + 1].result.status = "action"}}

\* C26: with two queries in progress, in any interleaving, every message
\* of a run's conversation other than the system prompt belongs to that
\* run's query, and the urls of a run's action event were all accepted by
\* batch_restore calls of that run.
C26_RunsKeepTheirOwnState ==
    parked # NoRun =>
        \A frame \in {Locals, parked} :
            /\ \A i \in 1..Len(frame.messages) :
                  frame.messages[i].role # "system" =>
                      OwnerOf(frame.messages[i]) = frame.run
            /\ \A i \in 1..Len(frame.events) :
                  frame.events[i].type = "action" =>
                      Range(frame.events[i].urls) \subseteq AcceptedBy(frame)

\* C26 witness: both queries were answered with an action event, one for
\* the urls a and b, the other for b and c.
C26_Witness ==
    /\ parked # NoRun
    /\ pc = "terminal"
    /\ parked.pc = "done"
    /\ \E i \in 1..Len(events) :
          events[i].type = "action" /\ events[i].urls = <<"a", "b">>
    /\ \E i \in 1..Len(parked.events) :
          parked.events[i].type = "action" /\ parked.events[i].urls = <<"b", "c">>

(***************************************************************************)
(* Properties of the event stream and the conversation (Spec).             *)
(***************************************************************************)
\* The generator has ended by itself: it returned or an exception left it.
StreamEnded == pc \in {"done", "raised"}

EventsOfType(types) == {i \in DOMAIN events : events[i].type \in types}

\* C27: in a run with a configured provider the first event is the thinking
\* event of step 1; each later thinking event has the step of the previous
\* one plus 1, at most MAX_STEPS; tool events carry the step of the last
\* thinking event; a tool_call event is directly followed by a tool_result
\* event of the same step and tool; there is at most one action event, and
\* an answer event directly follows it; and a stream that has ended holds
\* exactly one answer or error event, its last event.
C27_EventStreamShape ==
    config.present /\ config.api_key # "" =>
        /\ events # <<>> => events[1] = ThinkingEvent(0)
        /\ \A i \in EventsOfType({"thinking"}) :
              /\ events[i].step <= MAX_STEPS
              /\ \A j \in EventsOfType({"thinking"}) :
                    (i < j /\ \A k \in (i + 1)..(j - 1) : events[k].type # "thinking")
                        => events[j].step = events[i].step + 1
              /\ \A j \in EventsOfType({"tool_call", "tool_result"}) :
                    (i < j /\ \A k \in (i + 1)..(j - 1) : events[k].type # "thinking")
                        => events[j].step = events[i].step
        /\ \A i \in EventsOfType({"tool_call"}) :
              IF i = Len(events) THEN ~StreamEnded
              ELSE /\ events[i + 1].type = "tool_result"
                   /\ events[i + 1].step = events[i].step
                   /\ events[i + 1].tool = events[i].tool
        /\ Cardinality(EventsOfType({"action"})) <= 1
        /\ \A i \in EventsOfType({"action"}) :
              IF i = Len(events) THEN ~StreamEnded
              ELSE events[i + 1].type = "answer"
        /\ EventsOfType({"answer", "error"}) \subseteq {Len(events)}
        /\ StreamEnded => EventsOfType({"answer", "error"}) = {Len(events)}

\* The part of C27 that the exceptions of C4, C5 and C6 do not reach: the
\* same shape for the runs that no exception has ended.
StreamShapeUnlessRaised == pc # "raised" => C27_EventStreamShape

\* The tool-result messages of the conversation that carry the id.
AnswersTo(id) ==
    {q \in DOMAIN messages :
        messages[q].role = "tool" /\ messages[q].tool_call_id = id}

\* C28: the conversation only grows at its end; it starts with the system
\* prompt and the user query; and when an LLM call is about to be made,
\* every assistant message in it is directly followed by one tool-result
\* message per tool call it requested, in the order of the calls, each
\* carrying the id of its call, and no other message carries that id.
C28_ConversationAnswersEveryCall ==
    /\ [][/\ Len(messages) <= Len(messages')
          /\ \A i \in 1..Len(messages) : messages'[i] = messages[i]]_vars
    /\ [](messages # <<>> =>
             /\ Len(messages) >= 2
             /\ messages[1] = SystemMessage
             /\ messages[2] = UserMessage(UserQuery))
    /\ [](pc = "thinking" =>
             \A p \in AssistantAt :
                LET calls == messages[p].tool_calls
                IN /\ p + Len(calls) <= Len(messages)
                   /\ \A k \in 1..Len(calls) :
                         AnswersTo(calls[k].id) = {p + k})

\* C28 witness: an LLM call is about to be made with a conversation that
\* holds a reply of two tool calls and their two results.
C28_Witness ==
    /\ pc = "thinking"
    /\ \E p \in AssistantAt :
          /\ Len(messages[p].tool_calls) = 2
          /\ messages[p + 2].role = "tool"
          /\ messages[p + 2].tool_call_id = messages[p].tool_calls[2].id

\* The urls the action events of the stream have delivered.
DeliveredUrls ==
    UNION {Range(events[i].urls) : i \in EventsOfType({"action"})}

\* C29: when the terminal event of a run has been emitted, whether the run
\* was answered, truncated or failed, every url that a batch_restore call
\* of the run accepted has been delivered in an action event before it.
C29_AcceptedUrlsDelivered ==
    pc \in {"terminal", "done"} => Range(AcceptedUrls) \subseteq DeliveredUrls

\* The part of C29 that holds: the runs that end with the answer of the
\* model deliver every accepted url.
AnsweredRunsDeliver ==
    /\ pc \in {"terminal", "done"}
    /\ LastEvent.type = "answer"
    /\ ~Has(LastEvent, "truncated")
    => Range(AcceptedUrls) \subseteq DeliveredUrls

(***************************************************************************)
(* Properties of opening the collection (specification SpecOpen).          *)
(***************************************************************************)
\* C30: the first access of a process that returns leaves the collection
\* empty and of the configured dimension when it held records of another
\* dimension, and leaves every record in place otherwise; a later access
\* of the same process leaves every record in place.
C30_DroppedIffDimensionDiffers ==
    [][op' = "_get_collection" /\ ret'.opened =>
          IF ~ret.opened /\ index # {} /\ arg.dim # EXPECTED_DIM
          THEN index' = {} /\ arg'.dim = EXPECTED_DIM
          ELSE index' = index /\ arg'.dim = arg.dim]_vars

\* The part of C30 that holds: the same when no call of the dimension
\* check raises.
DroppedIffDimensionDiffersUnlessSkipped ==
    [][op' = "_get_collection" /\ ret'.opened /\ ret'.fault = "none" =>
          IF ~ret.opened /\ index # {} /\ arg.dim # EXPECTED_DIM
          THEN index' = {} /\ arg'.dim = EXPECTED_DIM
          ELSE index' = index /\ arg'.dim = arg.dim]_vars

(***************************************************************************)
(* Properties of the dispatch of a tool (Spec, SpecTwo).                   *)
(***************************************************************************)
\* The running generator goes from the tool_call event to the tool_result
\* event, or the tool's exception leaves it.
DispatchStep ==
    /\ running' = running
    /\ pc = "tool_call"
    /\ pc' \in {"tool_result", "raised"}

\* The running generator appends the tool-result message.
ObserveStep ==
    /\ running' = running
    /\ pc = "tool_result"
    /\ pc' # pc

\* The dispatched call is a batch_restore of a non-empty url list.
RestoreAsked ==
    /\ tool_calls[tc].function.name = "batch_restore"
    /\ Has(tool_args, "urls")
    /\ tool_args.urls # <<>>

\* C31: the dispatch of a tool, whatever its name, leaves the records of
\* the vector index, the endpoint configuration and the other run as they
\* are; a batch_restore of a non-empty url list returns these urls as a
\* pending action, which is appended to the run's pending-restore list,
\* and every other dispatch leaves that list as it is; the step after it
\* appends the tool-result message to the run's conversation and changes
\* neither the index nor the pending-restore list.
C31_DispatchLeavesIndexUnchanged ==
    /\ [][DispatchStep =>
             /\ index' = index
             /\ config' = config
             /\ parked' = parked
             /\ messages' = messages
             /\ IF RestoreAsked
                THEN /\ pc' = "tool_result"
                     /\ tool_result'.action = "batch_restore"
                     /\ tool_result'.urls = tool_args.urls
                     /\ tool_result'.count = Len(tool_args.urls)
                     /\ restore_actions' = Append(restore_actions, tool_result')
                ELSE restore_actions' = restore_actions]_vars
    /\ [][ObserveStep =>
             /\ index' = index
             /\ config' = config
             /\ parked' = parked
             /\ restore_actions' = restore_actions
             /\ Len(messages') = Len(messages) + 1
             /\ SubSeq(messages', 1, Len(messages)) = messages
             /\ messages'[Len(messages')].role = "tool"
             /\ messages'[Len(messages')].tool_call_id = tool_calls[tc].id]_vars

\* C31 witness: over an index of two pages, a run whose search_tabs call
\* returned results has had its batch_restore of the urls b and c returned
\* as a pending action.
C31_Witness ==
    /\ index = AgentIndex
    /\ pc = "tool_result"
    /\ tool_calls[tc].function.name = "batch_restore"
    /\ tool_result = [action |-> "batch_restore", urls |-> <<"b", "c">>,
                      count |-> 2, reason |-> ""]
    /\ restore_actions = <<tool_result>>
    /\ \E i \in 1..Len(events) :
          /\ events[i].type = "tool_result"
          /\ events[i].tool = "search_tabs"
          /\ events[i].result.status = "success"
          /\ events[i].result.found > 0

(***************************************************************************)
(* Properties of the scores of an LLM search (SpecLlmSearch).              *)
(***************************************************************************)
\* 10^n
RECURSIVE TenTo(_)
TenTo(n) == IF n = 0 THEN 1 ELSE 10 * TenTo(n - 1)

\* Two scores are the same number: v * 10^-e on both sides.
SameNumber(a, b) ==
    IF a.e >= b.e
    THEN a.v % TenTo(a.e - b.e) = 0 /\ a.v \div TenTo(a.e - b.e) = b.v
    ELSE b.v % TenTo(b.e - a.e) = 0 /\ b.v \div TenTo(b.e - a.e) = a.v

\* The candidate handed to the reranker that a result was made from.
CandidateOf(r) ==
    CHOOSE i \in 1..Len(ret.candidates) : ret.candidates[i].url = r.url

\* The response of an LLM search that was reranked by the heuristics.
HeuristicResponse ==
    /\ op = "llm_search"
    /\ ~ret.raised
    /\ ret.rerank_mode = "heuristics"

\* C32: the score of every result of an LLM search reranked by the
\* heuristics is the number original_similarity * penalty * bonus of its
\* candidate; a candidate without penalty and without a matched query
\* term is reported with its original similarity.
C32_HeuristicScoreReported ==
    HeuristicResponse =>
        \A i \in 1..Len(ret.response.results) :
           LET r == ret.response.results[i]
               cand == ret.candidates[CandidateOf(r)]
           IN /\ SameNumber(r.score, HeuristicFinalScore(arg.query, cand))
              /\ (/\ Penalty(cand.text.lines) = 100
                  /\ Bonus(arg.query, cand.text) = 100)
                 => SameNumber(r.score, Score(cand.score, 4))

\* What the route reports instead: a hundredth of that number.
HeuristicScoreReportedByHundredth ==
    HeuristicResponse =>
        \A i \in 1..Len(ret.response.results) :
           LET r == ret.response.results[i]
               cand == ret.candidates[CandidateOf(r)]
               final == HeuristicFinalScore(arg.query, cand)
           IN SameNumber(r.score, Score(final.v, final.e + 2))

\* A heuristic response with a result of positive similarity whose
\* candidate has no penalty and no matched query term.
PlainHeuristicResult ==
    /\ HeuristicResponse
    /\ \E i \in 1..Len(ret.response.results) :
          LET cand == ret.candidates[CandidateOf(ret.response.results[i])]
          IN /\ cand.score > 0
             /\ Penalty(cand.text.lines) = 100
             /\ Bonus(arg.query, cand.text) = 100

====
